---- MODULE Spec2Model ----
(***************************************************************************)
(* Model of the weather-risk statistics engine of future-sight-nasa        *)
(* (backend/utils/statisticalCalculations.js, kept in src/unnamed/part_001)*)
(*                                                                         *)
(* JavaScript numbers are IEEE-754 binary64.  The engine divides, scales   *)
(* and adds them (range / numBins, min + i * binWidth, count / N * 100),   *)
(* and the histogram's bin edges are exactly where the rounding of those   *)
(* operations shows.  The model therefore computes with binary64 values:   *)
(* a number is sign * man * 2^exp with man a 53-bit natural kept as a      *)
(* little-endian sequence of limbs, and every arithmetic operation is the  *)
(* exact result rounded to nearest, ties to even.  Subnormals, infinities  *)
(* and NaN are outside the magnitudes the model draws.                     *)
(***************************************************************************)
EXTENDS Integers, Sequences, FiniteSets, TLC

(***************************************************************************)
(* Naturals of any size: little-endian limbs, no high zero limb, 0 = <<>>. *)
(***************************************************************************)
LimbBase == 2^20

\* Largest small operand of BMulS / BDivR that keeps limb arithmetic in range.
SmallMax == 2^10

RECURSIVE BFromInt(_)
BFromInt(n) ==
  IF n = 0 THEN <<>> ELSE <<n % LimbBase>> \o BFromInt(n \div LimbBase)

RECURSIVE BToInt(_)
BToInt(x) ==
  IF x = <<>> THEN 0 ELSE Head(x) + LimbBase * BToInt(Tail(x))

RECURSIVE BMulC(_, _, _)
BMulC(x, k, c) ==
  IF x = <<>>
    THEN (IF c = 0 THEN <<>> ELSE <<c>>)
    ELSE LET t == Head(x) * k + c
         IN  <<t % LimbBase>> \o BMulC(Tail(x), k, t \div LimbBase)

\* x * k for a small natural k
BMulS(x, k) == IF k = 0 THEN <<>> ELSE BMulC(x, k, 0)

\* quotient and remainder of x by a small positive k
RECURSIVE BDivR(_, _)
BDivR(x, k) ==
  IF x = <<>>
    THEN [q |-> <<>>, r |-> 0]
    ELSE LET hi == BDivR(Tail(x), k)
             t  == hi.r * LimbBase + Head(x)
             d  == t \div k
         IN  [q |-> IF hi.q = <<>> /\ d = 0 THEN <<>> ELSE <<d>> \o hi.q,
              r |-> t % k]

RECURSIVE BAddC(_, _, _)
BAddC(x, y, c) ==
  IF x = <<>> /\ y = <<>>
    THEN (IF c = 0 THEN <<>> ELSE <<c>>)
    ELSE LET a == IF x = <<>> THEN 0 ELSE Head(x)
             b == IF y = <<>> THEN 0 ELSE Head(y)
             t == a + b + c
         IN  <<t % LimbBase>>
               \o BAddC(IF x = <<>> THEN <<>> ELSE Tail(x),
                        IF y = <<>> THEN <<>> ELSE Tail(y),
                        t \div LimbBase)

BAdd(x, y) == BAddC(x, y, 0)

\* x * k for a natural k of any size (3600 in the precipitation loader)
RECURSIVE BMulN(_, _)
BMulN(x, k) ==
  IF k <= SmallMax THEN BMulS(x, k)
  ELSE BAdd(BMulS(x, k % SmallMax), BMulS(BMulN(x, k \div SmallMax), SmallMax))

RECURSIVE BStrip(_)
BStrip(x) ==
  IF x = <<>> THEN <<>>
  ELSE IF x[Len(x)] = 0 THEN BStrip(SubSeq(x, 1, Len(x) - 1))
  ELSE x

\* x - y - c for x >= y + c, limb by limb (high zero limbs are stripped after)
RECURSIVE BSubC(_, _, _)
BSubC(x, y, c) ==
  IF x = <<>>
    THEN <<>>
    ELSE LET b == IF y = <<>> THEN 0 ELSE Head(y)
             t == Head(x) - b - c
         IN  <<IF t < 0 THEN t + LimbBase ELSE t>>
               \o BSubC(Tail(x),
                        IF y = <<>> THEN <<>> ELSE Tail(y),
                        IF t < 0 THEN 1 ELSE 0)

BSub(x, y) == BStrip(BSubC(x, y, 0))

\* -1, 0, 1 as x < y, x = y, x > y
RECURSIVE BCmpTop(_, _, _)
BCmpTop(x, y, i) ==
  IF i = 0 THEN 0
  ELSE IF x[i] < y[i] THEN -1
  ELSE IF x[i] > y[i] THEN 1
  ELSE BCmpTop(x, y, i - 1)

BCmp(x, y) ==
  IF Len(x) < Len(y) THEN -1
  ELSE IF Len(x) > Len(y) THEN 1
  ELSE BCmpTop(x, y, Len(x))

BOdd(x) == x # <<>> /\ Head(x) % 2 = 1

\* x * 2^s
RECURSIVE BShl(_, _)
BShl(x, s) ==
  IF s = 0 THEN x
  ELSE IF s >= 10 THEN BShl(BMulS(x, SmallMax), s - 10)
  ELSE BShl(BMulS(x, 2), s - 1)

Two52 == BShl(<<1>>, 52)
Two53 == BShl(<<1>>, 53)
Two54 == BShl(<<1>>, 54)
Two63 == BShl(<<1>>, 63)

(***************************************************************************)
(* binary64 values and their correctly rounded operations.                 *)
(***************************************************************************)
DZero == [neg |-> FALSE, man |-> <<>>, exp |-> 0]

\* NaN (what undefined becomes in arithmetic and comparisons): a mantissa no
\* number has
DNaN == [neg |-> FALSE, man |-> <<0>>, exp |-> 0]

IsNaN(a) == a.man = <<0>>

\* num * 2^exp scaled up (exactly) until num >= lim
RECURSIVE ScaleUp(_, _, _)
RECURSIVE ScaleUpStep(_, _, _, _)
ScaleUpStep(num, big, exp, lim) ==
  IF BCmp(big, lim) <= 0
    THEN ScaleUp(big, exp - 10, lim)
    ELSE ScaleUp(BMulS(num, 2), exp - 1, lim)

ScaleUp(num, exp, lim) ==
  IF BCmp(num, lim) >= 0
    THEN [n |-> num, e |-> exp]
    ELSE ScaleUpStep(num, BMulS(num, SmallMax), exp, lim)

\* What was shifted out so far, against half a unit of the last place kept:
\* 0 nothing, 1 below half, 2 exactly half, 3 above half.
\* r is the bits now shifted out (half is their top bit), st the state of
\* the bits shifted out before them.
Dropped(r, half, st) ==
  IF r = 0 THEN (IF st = 0 THEN 0 ELSE 1)
  ELSE IF r < half THEN 1
  ELSE IF r = half THEN (IF st = 0 THEN 2 ELSE 3)
  ELSE 3

\* q * 2^exp shifted right (ten bits at a time, then one) until q < 2^53
RECURSIVE ScaleDown(_, _, _)
RECURSIVE ScaleDownStep(_, _, _, _)
ScaleDownStep(qr, exp, half, st) ==
  ScaleDown(qr.q, exp, Dropped(qr.r, half, st))

ScaleDown(q, exp, st) ==
  IF BCmp(q, Two63) >= 0
    THEN ScaleDownStep(BDivR(q, SmallMax), exp + 10, SmallMax \div 2, st)
  ELSE IF BCmp(q, Two53) >= 0
    THEN ScaleDownStep(BDivR(q, 2), exp + 1, 1, st)
  ELSE [q |-> q, e |-> exp, st |-> st]

\* The binary64 nearest to (num / den) * 2^exp, ties to even.
\* Each step below takes what the step before it computed.
\* m * 2^exp with m <= 2^53: 2^53 is written 2^52 * 2^(exp + 1)
Pack(neg, m, exp) ==
  IF BCmp(m, Two53) = 0
    THEN [neg |-> neg, man |-> Two52, exp |-> exp + 1]
    ELSE [neg |-> neg, man |-> m, exp |-> exp]

\* dn: 53 bits kept and what was dropped; up on above half, or half and odd
RoundKept(neg, dn) ==
  Pack(neg,
       IF dn.st = 3 \/ (dn.st = 2 /\ BOdd(dn.q))
         THEN BAdd(dn.q, <<1>>)
         ELSE dn.q,
       dn.e)

\* qr: quotient (at least 54 bits) and remainder of the scaled division
RoundQuotient(neg, qr, exp) ==
  RoundKept(neg, ScaleDown(qr.q, exp, IF qr.r = 0 THEN 0 ELSE 1))

RoundScaled(neg, up, den) == RoundQuotient(neg, BDivR(up.n, den), up.e)

Round(neg, num, den, exp) ==
  IF num = <<>> THEN DZero
  ELSE RoundScaled(neg, ScaleUp(num, exp, BMulS(Two54, den)), den)

Abs(n) == IF n < 0 THEN -n ELSE n

\* The number a / b of two integers (a numeric literal, or an integer quotient)
FromRat(a, b) == Round(a < 0, BFromInt(Abs(a)), b, 0)

FromInt(a) == FromRat(a, 1)

DNeg(a) == IF a.man = <<>> \/ IsNaN(a) THEN a ELSE [a EXCEPT !.neg = ~a.neg]

DAbs(a) == [a EXCEPT !.neg = FALSE]

\* a + b
\* x * 2^e and y * 2^e with signs xneg and yneg, c comparing x with y
AddCompared(xneg, x, yneg, y, c, e) ==
  Round(IF xneg = yneg \/ c > 0 THEN xneg ELSE yneg,
        IF xneg = yneg THEN BAdd(x, y)
        ELSE IF c >= 0 THEN BSub(x, y)
        ELSE BSub(y, x),
        1, e)

AddAligned(xneg, x, yneg, y, e) == AddCompared(xneg, x, yneg, y, BCmp(x, y), e)

AddAt(a, b, e) ==
  AddAligned(a.neg, BShl(a.man, a.exp - e), b.neg, BShl(b.man, b.exp - e), e)

DAdd(a, b) ==
  IF IsNaN(a) \/ IsNaN(b) THEN DNaN
  ELSE IF a.man = <<>> THEN b
  ELSE IF b.man = <<>> THEN a
  ELSE AddAt(a, b, IF a.exp < b.exp THEN a.exp ELSE b.exp)

\* a - b
DSub(a, b) == DAdd(a, DNeg(b))

\* a * k for a natural k
DMulS(a, k) ==
  IF IsNaN(a) THEN DNaN ELSE Round(a.neg, BMulN(a.man, k), 1, a.exp)

\* a / k for a positive natural k
DDivS(a, k) ==
  IF IsNaN(a) THEN DNaN ELSE Round(a.neg, a.man, k, a.exp)

\* -1, 0, 1 as a < b, a = b, a > b; 2 when either is NaN (no comparison holds)
DCmp(a, b) ==
  LET mag == IF a.man = <<>> /\ b.man = <<>> THEN 0
             ELSE IF a.man = <<>> THEN -1
             ELSE IF b.man = <<>> THEN 1
             ELSE IF a.exp < b.exp THEN -1
             ELSE IF a.exp > b.exp THEN 1
             ELSE BCmp(a.man, b.man)
  IN  IF IsNaN(a) \/ IsNaN(b) THEN 2
      ELSE IF a.man = <<>> /\ b.man = <<>> THEN 0
      ELSE IF a.neg /\ ~b.neg THEN -1
      ELSE IF ~a.neg /\ b.neg THEN 1
      ELSE IF a.neg THEN -mag ELSE mag

DLt(a, b) == DCmp(a, b) = -1
DLe(a, b) == DCmp(a, b) \in {-1, 0}
DGe(a, b) == DCmp(a, b) \in {0, 1}
DGt(a, b) == DCmp(a, b) = 1

\* q * 2^exp (exp <= 0) shifted right to an integer, remembering the fraction
RECURSIVE ToUnits(_, _, _)
RECURSIVE ToUnitsStep(_, _, _, _)
ToUnitsStep(qr, exp, half, st) ==
  ToUnits(qr.q, exp, Dropped(qr.r, half, st))

ToUnits(q, exp, st) ==
  IF exp <= -10 /\ q # <<>>
    THEN ToUnitsStep(BDivR(q, SmallMax), exp + 10, SmallMax \div 2, st)
  ELSE IF exp < 0 /\ q # <<>>
    THEN ToUnitsStep(BDivR(q, 2), exp + 1, 1, st)
  ELSE [q |-> q, st |-> IF exp < 0 THEN (IF st = 0 THEN 0 ELSE 1) ELSE st]

\* Math.round: the nearest integer, a tie going towards +Infinity
\* n whole units and the fraction st dropped from them
RoundUnits(neg, n, st) ==
  IF neg THEN -(IF st = 3 THEN n + 1 ELSE n)
  ELSE IF st >= 2 THEN n + 1 ELSE n

RoundFraction(neg, u) == RoundUnits(neg, BToInt(u.q), u.st)

MathRound(a) ==
  IF a.man = <<>> THEN 0
  ELSE IF a.exp >= 0 THEN
    (IF a.neg THEN -1 ELSE 1) * BToInt(BShl(a.man, a.exp))
  ELSE RoundFraction(a.neg, ToUnits(a.man, a.exp, 0))

(***************************************************************************)
(* The statistics engine.  A sample value and a threshold are written in   *)
(* tenths (the decimal literal v/10); Num is the binary64 the engine gets. *)
(* A value the engine rounds with Math.round(x * 100) / 100 is kept as the *)
(* integer Math.round(x * 100), i.e. in hundredths.                        *)
(***************************************************************************)
Num(v) == FromRat(v, 10)

Return(v) == [error |-> "none", value |-> v]
Throw(msg) == [error |-> msg]
Threw(r) == r.error # "none"

\* operators (part_001:64-71)
operators ==
  [max_temp      |-> ">=",
   min_temp      |-> "<=",
   precipitation |-> ">=",
   wind_speed    |-> ">=",
   heat_index    |-> ">=",
   air_quality   |-> ">="]

operatorOfDefault(var) ==
  IF var \in DOMAIN operators THEN operators[var] ELSE ">="

operatorOf(var) ==
  IF var \in DOMAIN operators THEN operators[var] ELSE "undefined"

checkAdverseConditionStrict(value, thr, var) ==
  CASE operatorOf(var) = ">=" -> Return(DGt(value, thr))
    [] operatorOf(var) = "<=" -> Return(DLt(value, thr))
    [] OTHER -> Throw("Unknown operator for variable")

checkAdverseCondition(value, thr, var) ==
  CASE operatorOf(var) = ">=" -> Return(DGe(value, thr))
    [] operatorOf(var) = "<=" -> Return(DLe(value, thr))
    [] OTHER -> Throw("Unknown operator for variable")

\* the forEach of calculateProbability: what values[lo..hi] add to adverseCount
\* (the range is halved to keep the evaluation shallow)
RECURSIVE adverseCount(_, _, _, _, _)
adverseCount(values, thr, var, lo, hi) ==
  IF lo > hi THEN 0
  ELSE IF lo = hi
    THEN (IF checkAdverseCondition(values[lo], thr, var).value THEN 1 ELSE 0)
  ELSE adverseCount(values, thr, var, lo, (lo + hi) \div 2)
         + adverseCount(values, thr, var, ((lo + hi) \div 2) + 1, hi)

\* the first call of checkAdverseCondition throws or none does
probabilityOf(values, thr, var, first, ratio) ==
  IF Threw(first) THEN first ELSE Return(DMulS(ratio, 100))

calculateProbabilityNoDivide(values, thr, var) ==
  IF Len(values) = 0 THEN Return(DZero)
  ELSE probabilityOf(values, thr, var,
                     checkAdverseCondition(values[1], thr, var),
                     FromInt(adverseCount(values, thr, var, 1, Len(values))))

calculateProbability(values, thr, var) ==
  IF Len(values) = 0 THEN Return(DZero)
  ELSE probabilityOf(values, thr, var,
                     checkAdverseCondition(values[1], thr, var),
                     FromRat(adverseCount(values, thr, var, 1, Len(values)),
                             Len(values)))

\* values.reduce((acc, value) => acc + value, 0): acc after adding
\* values[lo], ..., values[hi] in this order.  The range is halved, and the
\* sum of the left half is looked at before the right half starts, to keep
\* TLC's evaluation shallow; the additions and their order are the loop's.
RECURSIVE reduceSum(_, _, _, _)
reduceSum(values, acc, lo, hi) ==
  IF lo > hi THEN acc
  ELSE IF lo = hi THEN DAdd(acc, values[lo])
  ELSE LET left == reduceSum(values, acc, lo, (lo + hi) \div 2)
       IN  IF left.man = <<>>
             THEN reduceSum(values, DZero, ((lo + hi) \div 2) + 1, hi)
             ELSE reduceSum(values, left, ((lo + hi) \div 2) + 1, hi)

calculateMean(values) ==
  IF Len(values) = 0 THEN DZero
  ELSE DDivS(reduceSum(values, DZero, 1, Len(values)), Len(values))

\* Array.prototype.sort with (a, b) => a.year - b.year is stable and
\* ascending: d[i] lands after the records of a smaller year and after the
\* earlier records of the same year.
sortedPosition(d) ==
  [i \in DOMAIN d |->
     1 + Cardinality({j \in DOMAIN d :
           d[j].year < d[i].year \/ (d[j].year = d[i].year /\ j < i)})]

sortByYearNone(d) == d

sortByYear(d) ==
  LET pos == sortedPosition(d)
  IN  [k \in DOMAIN d |-> d[CHOOSE i \in DOMAIN d : pos[i] = k]]

\* record.value as the arithmetic and the comparisons see it: a record
\* without a value gives undefined, which they read as NaN
valueOf(record) ==
  IF "value" \in DOMAIN record THEN Num(record.value) ELSE DNaN

\* record.value as it is stored in rawData
rawValueOf(record) ==
  IF "value" \in DOMAIN record THEN record.value ELSE "undefined"

valuesOf(d) == [i \in 1..Len(d) |-> valueOf(d[i])]
yearsOf(d) == [i \in 1..Len(d) |-> d[i].year]

splitPoint(n) == n \div 2

tooFewYearsLoose(n) == n < 5

\* data.length < 10 (part_001:100)
tooFewYears(n) == n < 10

\* Math.abs(trendChange) < 2, else trendChange > 0, else (part_001:128-134)
trendBranchNoStable(trendChange) ==
  IF DGt(trendChange, DZero) THEN "increased" ELSE "decreased"

trendBranch(trendChange) ==
  IF DLt(DAbs(trendChange), FromInt(2)) THEN "stable"
  ELSE IF DGt(trendChange, DZero) THEN "increased"
  ELSE "decreased"

\* The description is the template chosen (kind) with the values it embeds;
\* toFixed(1) formats the probabilities and the change kept here.
\* part_001:121-143, from the two probabilities and their difference
trendResult(n, earlyYears, recentYears, earlyProbability, recentProbability, trendChange) ==
  Return(
    [trendChange       |-> trendChange,
     description       |-> [kind              |-> trendBranch(trendChange),
                            years             |-> n,
                            trendChange       |-> trendChange,
                            earlyYears        |-> earlyYears,
                            earlyProbability  |-> earlyProbability,
                            recentYears       |-> recentYears,
                            recentProbability |-> recentProbability],
     earlyProbability  |-> earlyProbability,
     recentProbability |-> recentProbability,
     earlyPeriod       |-> earlyYears,
     recentPeriod      |-> recentYears])

\* part_001:118-121, from what the two calls of calculateProbability gave
trendOfProbabilities(n, earlyPeriod, recentPeriod, early, recent) ==
  IF Threw(early) THEN early
  ELSE IF Threw(recent) THEN recent
  ELSE trendResult(n,
                   <<earlyPeriod[1].year, earlyPeriod[Len(earlyPeriod)].year>>,
                   <<recentPeriod[1].year, recentPeriod[Len(recentPeriod)].year>>,
                   early.value, recent.value,
                   DSub(recent.value, early.value))

\* part_001:112-119, from the two halves of the sorted sample
trendOfPeriods(n, earlyPeriod, recentPeriod, thr, var) ==
  trendOfProbabilities(n, earlyPeriod, recentPeriod,
                       calculateProbability(valuesOf(earlyPeriod), thr, var),
                       calculateProbability(valuesOf(recentPeriod), thr, var))

\* part_001:109-113, from the sorted sample
trendOfSorted(sortedData, sp, thr, var) ==
  trendOfPeriods(Len(sortedData),
                 SubSeq(sortedData, 1, sp),
                 SubSeq(sortedData, sp + 1, Len(sortedData)),
                 thr, var)

calculateTrendAnalysis(d, thr, var) ==
  IF tooFewYears(Len(d))
    THEN Return([trendChange |-> DZero,
                 description |-> [kind |-> "insufficient"]])
    ELSE trendOfSorted(sortByYear(d), splitPoint(Len(d)), thr, var)

\* what data.sort leaves in the caller's array
dataAfterTrend(d) == IF tooFewYears(Len(d)) THEN d ELSE sortByYear(d)

\* Math.min(...values), Math.max(...values)
MathMin(values) ==
  IF \E i \in DOMAIN values : IsNaN(values[i]) THEN DNaN
  ELSE CHOOSE v \in {values[i] : i \in DOMAIN values} :
    \A i \in DOMAIN values : DLe(v, values[i])

MathMax(values) ==
  IF \E i \in DOMAIN values : IsNaN(values[i]) THEN DNaN
  ELSE CHOOSE v \in {values[i] : i \in DOMAIN values} :
    \A i \in DOMAIN values : DGe(v, values[i])

IMin(a, b) == IF a < b THEN a ELSE b
IMax(a, b) == IF a > b THEN a ELSE b

numBinsNoCap(n) == IMax(10, n \div 5)

\* Math.min(20, Math.max(10, Math.floor(values.length / 5)))
numBins(n) == IMin(20, IMax(10, n \div 5))

\* the filter of bin i (0-based) of numBins bins
inBin(value, binMin, binMax, i, nb) ==
  IF i = nb - 1
    THEN DGe(value, binMin) /\ DLe(value, binMax)
    ELSE DGe(value, binMin) /\ DLt(value, binMax)

\* part_001:163-200, edge[i] = min + i * binWidth being binMin of bin i and
\* binMax of bin i - 1
distributionOf(values, min, max, binWidth, nb, edge, thr, var) ==
  [bins        |-> [k \in 1..nb |->
                      [min      |-> edge[k - 1],
                       max      |-> edge[k],
                       midpoint |-> DDivS(DAdd(edge[k - 1], edge[k]), 2)]],
   frequencies |-> [k \in 1..nb |->
                      Cardinality({j \in 1..Len(values) :
                         inBin(values[j], edge[k - 1], edge[k], k - 1, nb)})],
   metadata    |-> [totalValues |-> Len(values),
                    range       |-> [min |-> min, max |-> max],
                    binWidth    |-> binWidth,
                    threshold   |-> thr,
                    variable    |-> var]]

\* part_001:168-169
binEdges(min, max, binWidth, nb) ==
  [i \in 0..nb |-> DAdd(min, DMulS(binWidth, i))]

\* part_001:161, from min, max and numBins
distributionOfBins(values, min, max, binWidth, nb, thr, var) ==
  distributionOf(values, min, max, binWidth, nb,
                 binEdges(min, max, binWidth, nb), thr, var)

\* part_001:157-161, from min and max
distributionOfRange(values, min, max, nb, thr, var) ==
  distributionOfBins(values, min, max, DDivS(DSub(max, min), nb), nb, thr, var)

createDistributionData(values, thr, var) ==
  IF Len(values) = 0 THEN [bins |-> <<>>, frequencies |-> <<>>]
  ELSE distributionOfRange(values, MathMin(values), MathMax(values),
                           numBins(Len(values)), thr, var)

\* Math.round(x * 100), the hundredths of Math.round(x * 100) / 100; NaN stays NaN
Round2(x) == IF IsNaN(x) THEN "NaN" ELSE MathRound(DMulS(x, 100))

noDataNever(d) == FALSE

\* !data || data.length === 0 (part_001:12)
noData(d) == Len(d) = 0

\* part_001:25-37, the object returned
statisticsResult(d, years, probability, mean, trendAnalysis, distributionData) ==
  Return(
    [probability      |-> Round2(probability),
     mean             |-> Round2(mean),
     trendChange      |-> Round2(trendAnalysis.trendChange),
     trendAnalysis    |-> trendAnalysis.description,
     dataYears        |-> Len(years),
     distributionData |-> distributionData,
     rawData          |-> [values      |-> [i \in 1..Len(d) |-> rawValueOf(d[i])],
                           years       |-> years,
                           recordCount |-> Len(d)]])

\* part_001:20-25, from what calculateProbability and calculateTrendAnalysis gave
statisticsOfTrend(d, values, probability, trendAnalysis, thr, var) ==
  IF Threw(probability) THEN probability
  ELSE IF Threw(trendAnalysis) THEN trendAnalysis
  ELSE statisticsResult(d, yearsOf(d), probability.value, calculateMean(values),
                        trendAnalysis.value,
                        createDistributionData(values, thr, var))

\* part_001:16-22, from the values extracted
statisticsOfValues(d, values, thr, var) ==
  statisticsOfTrend(d, values,
                    calculateProbability(values, thr, var),
                    calculateTrendAnalysis(d, thr, var),
                    thr, var)

calculateStatistics(d, thr, var) ==
  IF noData(d) THEN Throw("No historical data available for analysis")
  ELSE statisticsOfValues(d, valuesOf(d), thr, var)

\* part_001:253
validVariables ==
  {"max_temp", "min_temp", "precipitation", "wind_speed", "heat_index", "air_quality"}

\* typeof record.value === 'number' && !isNaN(record.value) &&
\* typeof record.year === 'number' (part_001:259-264)
hasValidStructure(d) ==
  \A i \in DOMAIN d : "value" \in DOMAIN d[i] /\ "year" \in DOMAIN d[i]

validateStatisticalInputs(d, thr, var) ==
  IF Len(d) = 0 THEN Throw("Invalid data: must be a non-empty array")
  ELSE IF IsNaN(thr) THEN Throw("Invalid threshold: must be a number")
  ELSE IF var \notin validVariables THEN Throw("Invalid variable: must be one of")
  ELSE IF ~hasValidStructure(d)
    THEN Throw("Invalid data structure: each record must have numeric value and year properties")
  ELSE Return("undefined")

\* the variable ids analysisSchema accepts (historicalAnalysis.js:17-20)
analysisSchemaVariables ==
  {"max_temp", "min_temp", "precipitation", "wind_speed", "humidity", "air_quality"}

(***************************************************************************)
(* State: the caller's sample (an array the engine is handed by reference),*)
(* the threshold and variable of the request, and what the last call of an *)
(* exported function returned or threw.                                    *)
(***************************************************************************)
VARIABLES data, threshold, variable, result

(***************************************************************************)
(* State of the server process (index.js): the three data files, the       *)
(* process timezone, the three processors, where each load operation is,   *)
(* the processor the precipitation routes were given, whether an uncaught  *)
(* exception ended the process, and the answer to the last query.          *)
(***************************************************************************)
VARIABLES files, timezone, precipitationProcessor, windSpeedProcessor,
          humidityProcessor, loads, routeProcessor, crashed, response

engineVars == <<data, threshold, variable, result>>

serverVars == <<files, timezone, precipitationProcessor, windSpeedProcessor,
                humidityProcessor, loads, routeProcessor, crashed, response>>

(***************************************************************************)
(* State of the frontend hook useHistoricalData (part_006:436-514): the    *)
(* three useState cells, and the requests fetchData has sent, in the order *)
(* they were sent, each in flight or settled.                              *)
(***************************************************************************)
VARIABLES hook, requests

hookVars == <<hook, requests>>

vars == <<engineVars, serverVars, hookVars>>

\* the null a method returns; a value v is null iff IsNull(v)
Null == [null |-> TRUE]

IsNull(v) == "null" \in DOMAIN v

\* useState(null), useState(false), useState(null) (part_006:437-439)
useState == [data |-> Null, loading |-> FALSE, error |-> Null]

\* the hook before fetchData is called
NoFrontend == hook = useState /\ requests = <<>>

\* new PrecipitationProcessor() (precipitationProcessor.js:6-11); a Map is the
\* sequence of its entries in insertion order
NewPrecipitationProcessor ==
  [precipitationData |-> <<>>, isDataLoaded |-> FALSE, totalRecords |-> 0,
   dateRange |-> [start |-> "null", end |-> "null"]]

\* new WindSpeedProcessor() (windSpeedProcessor.js:5-10)
NewWindSpeedProcessor ==
  [windSpeedData |-> <<>>, isDataLoaded |-> FALSE, totalRecords |-> 0,
   dateRange |-> [start |-> "null", end |-> "null"]]

\* new HumidityProcessor() (humidityProcessor.js:6-9)
NewHumidityProcessor == [humidityData |-> <<>>, dataLoaded |-> FALSE]

\* a load operation not called yet
NotCalled == [calls |-> 0, promise |-> "none"]

NoResponse == [to |-> "none"]

\* the processors as index.js constructs them, before any load is called
Constructed ==
  /\ precipitationProcessor = NewPrecipitationProcessor
  /\ windSpeedProcessor = NewWindSpeedProcessor
  /\ humidityProcessor = NewHumidityProcessor
  /\ loads = [precipitation |-> NotCalled, wind_speed |-> NotCalled,
              humidity |-> NotCalled]
  /\ routeProcessor = "null"
  /\ crashed = FALSE
  /\ response = NoResponse

\* the engine on its own: no file is read
NoServer ==
  /\ files = <<>>
  /\ timezone = "UTC"
  /\ Constructed
  /\ NoFrontend

\* Largest size of the samples drawn in every order and value pattern
MaxN == 15

\* value (tenths) of the record of the r-th year, per value pattern
valueAt(pattern, r) ==
  CASE pattern = "ramp"   -> 100 + 100 * r
    [] pattern = "tenths" -> r
    [] pattern = "flat"   -> 250
    [] pattern = "zigzag" -> 10 * ((3 * r) % 7)
    [] pattern = "frost"  -> 7 * r - 31

\* rank (0-based) of the year at array position i of n, per order
rankAt(order, i, n) ==
  CASE order = "asc"  -> i - 1
    [] order = "desc" -> n - i
    [] order = "rot"  -> (i + (n \div 3)) % n

sample(pattern, order, n) ==
  [i \in 1..n |-> [year  |-> 2014 + rankAt(order, i, n),
                   value |-> valueAt(pattern, rankAt(order, i, n))]]

\* value pattern and threshold (tenths) of the requests drawn
Profiles ==
  { <<"ramp", 550>>, <<"tenths", 5>>, <<"flat", 250>>, <<"flat", 300>>,
    <<"zigzag", 60>>, <<"zigzag", 50>>, <<"frost", 0>> }

Variables == {"max_temp", "min_temp", "precipitation", "wind_speed", "humidity"}

\* sizes at which the bin count leaves 10 and reaches 20
LargeSizes == {54, 55, 99, 100, 105}

Idle == [fn |-> "none"]

Init ==
  /\ NoServer
  /\ result = Idle
  /\ \/ \E p \in Profiles, o \in {"asc", "desc", "rot"}, n \in 0..MaxN :
          /\ data = sample(p[1], o, n)
          /\ threshold = p[2]
          /\ variable \in Variables
     \/ \E n \in LargeSizes :
          /\ data = sample("tenths", "asc", n)
          /\ threshold = 5
          /\ variable \in {"max_temp", "min_temp"}

CalculateStatistics ==
  /\ result = Idle
  /\ \E r \in {calculateStatistics(data, Num(threshold), variable)} :
       /\ result' = [fn |-> "calculateStatistics", ret |-> r]
       \* a throw happens before calculateTrendAnalysis is called
       /\ data' = IF Threw(r) THEN data ELSE dataAfterTrend(data)
  /\ UNCHANGED <<threshold, variable, serverVars, hookVars>>

CalculateProbability ==
  /\ result = Idle
  /\ result' = [fn  |-> "calculateProbability",
                ret |-> calculateProbability(valuesOf(data), Num(threshold), variable)]
  /\ UNCHANGED <<data, threshold, variable, serverVars, hookVars>>

CalculateMean ==
  /\ result = Idle
  /\ result' = [fn |-> "calculateMean", ret |-> Return(calculateMean(valuesOf(data)))]
  /\ UNCHANGED <<data, threshold, variable, serverVars, hookVars>>

CalculateTrendAnalysis ==
  /\ result = Idle
  /\ result' = [fn  |-> "calculateTrendAnalysis",
                ret |-> calculateTrendAnalysis(data, Num(threshold), variable)]
  /\ data' = dataAfterTrend(data)
  /\ UNCHANGED <<threshold, variable, serverVars, hookVars>>

CreateDistributionData ==
  /\ result = Idle
  /\ result' = [fn  |-> "createDistributionData",
                ret |-> Return(createDistributionData(valuesOf(data), Num(threshold), variable))]
  /\ UNCHANGED <<data, threshold, variable, serverVars, hookVars>>

Next ==
  \/ CalculateStatistics
  \/ CalculateProbability
  \/ CalculateMean
  \/ CalculateTrendAnalysis
  \/ CreateDistributionData

Spec == Init /\ [][Next]_vars

(***************************************************************************)
(* A caller that hands the engine whatever it has: a threshold that may be *)
(* NaN, records that may have no value.  Nothing in calculateStatistics    *)
(* calls validateStatisticalInputs; the validator is exported on its own.  *)
(***************************************************************************)
\* Largest size of the samples with a record that has no value
MaxLacking == 11

\* d with the value of its i-th record missing (all present for i = 0)
lacking(d, i) ==
  [j \in DOMAIN d |-> IF j = i THEN [year |-> d[j].year] ELSE d[j]]

InitUnvalidated ==
  /\ NoServer
  /\ result = Idle
  /\ \E p \in Profiles, n \in 0..MaxLacking :
       \E i \in 0..n :
         /\ data = lacking(sample(p[1], "rot", n), i)
         /\ threshold = p[2]
         /\ variable \in {"max_temp", "min_temp", "humidity"}

\* the threshold of the call: the number of the request, or NaN
Thresholds == {Num(threshold), DNaN}

CalculateStatisticsUnvalidated ==
  /\ result = Idle
  /\ \E thr \in Thresholds :
       \E r \in {calculateStatistics(data, thr, variable)} :
         /\ result' = [fn |-> "calculateStatistics", thr |-> thr, ret |-> r]
         /\ data' = IF Threw(r) THEN data ELSE dataAfterTrend(data)
  /\ UNCHANGED <<threshold, variable, serverVars, hookVars>>

ValidateStatisticalInputs ==
  /\ result = Idle
  /\ \E thr \in Thresholds :
       result' = [fn  |-> "validateStatisticalInputs", thr |-> thr,
                  ret |-> validateStatisticalInputs(data, thr, variable)]
  /\ UNCHANGED <<data, threshold, variable, serverVars, hookVars>>

NextUnvalidated ==
  \/ CalculateStatisticsUnvalidated
  \/ ValidateStatisticalInputs

SpecUnvalidated == InitUnvalidated /\ [][NextUnvalidated]_vars

(***************************************************************************)
(* The data files and their parsing.  A line is the sequence of its cells, *)
(* line.split(',').map(col => col.trim()); the empty line is <<"">>.  What *)
(* the string functions give is tabulated for the cells the files contain. *)
(***************************************************************************)
\* the cells that are decimal numerals, with their values in tenths
Decimals ==
  { <<"0", 0>>, <<"5", 50>>, <<"0.5", 5>>, <<"-3", -30>>, <<"-9999", -99990>>,
    <<"-10000", -100000>>, <<"0.1", 1>>, <<"0.2", 2>>, <<"0.3", 3>>,
    <<"1.5", 15>>, <<"1.6", 16>>, <<"3.3", 33>>, <<"3.4", 34>>, <<"5.4", 54>>,
    <<"5.5", 55>>, <<"7.9", 79>>, <<"8", 80>>, <<"10.7", 107>>, <<"10.8", 108>>,
    <<"13.8", 138>>, <<"13.9", 139>>, <<"17.1", 171>>, <<"17.2", 172>>,
    <<"20.7", 207>>, <<"20.8", 208>>, <<"25", 250>> }

Numerals == {c[1] : c \in Decimals}

\* parseFloat of a cell, in tenths; a cell outside the table gives NaN, and
\* "12abc" is read as 12
parseFloat ==
  [s \in Numerals \cup {"12abc"} |->
     IF s = "12abc" THEN 120 ELSE (CHOOSE c \in Decimals : c[1] = s)[2]]

\* the documented fill value (precipitationProcessor.js:62)
FillValue == -9999

\* timestamp.split(' '): the date part and the time part
splitOnSpace(timestamp) ==
  CASE timestamp = "2015-01-01 00:00:00" -> <<"2015-01-01", "00:00:00">>
    [] timestamp = "2015-01-01 03:00:00" -> <<"2015-01-01", "03:00:00">>
    [] timestamp = "2015-01-02 00:00:00" -> <<"2015-01-02", "00:00:00">>
    [] timestamp = "2015-01-03 00:00:00" -> <<"2015-01-03", "00:00:00">>
    [] timestamp = "2015-03-07 00:00:00" -> <<"2015-03-07", "00:00:00">>
    [] timestamp = "2015-03-08 00:00:00" -> <<"2015-03-08", "00:00:00">>
    [] timestamp = "2015-03-09 00:00:00" -> <<"2015-03-09", "00:00:00">>
    [] timestamp = "2015-03-10 00:00:00" -> <<"2015-03-10", "00:00:00">>
    [] timestamp = "2015-13-45 99:99:99" -> <<"2015-13-45", "99:99:99">>
    [] OTHER -> <<timestamp, "undefined">>

\* new Date(timestamp) is a valid Date
isValidDate(timestamp) ==
  timestamp \in {"2015-01-01 00:00:00", "2015-01-01 03:00:00", "2015-01-02 00:00:00",
                 "2015-01-03 00:00:00", "2015-03-07 00:00:00", "2015-03-08 00:00:00",
                 "2015-03-09 00:00:00", "2015-03-10 00:00:00"}

\* new Date(timestamp).toISOString().split('T')[0]: the timestamp is read as
\* local time of the process and written as UTC; west of Greenwich a local
\* time before 19:00 is the same day in UTC
toISODate(timestamp, tz) ==
  CASE tz \in {"UTC", "America/New_York"} -> splitOnSpace(timestamp)[1]
    [] tz = "UTC+01:00" ->
         CASE timestamp = "2015-01-01 00:00:00" -> "2014-12-31"
           [] timestamp = "2015-01-01 03:00:00" -> "2015-01-01"
           [] timestamp = "2015-01-02 00:00:00" -> "2015-01-01"
           [] timestamp = "2015-01-03 00:00:00" -> "2015-01-02"
           [] timestamp = "2015-03-07 00:00:00" -> "2015-03-06"
           [] timestamp = "2015-03-08 00:00:00" -> "2015-03-07"
           [] timestamp = "2015-03-09 00:00:00" -> "2015-03-08"
           [] timestamp = "2015-03-10 00:00:00" -> "2015-03-09"

\* the cells that include the given text (String.prototype.includes)
includes(cell, text) ==
  CASE text = "time"  -> cell = "time"
    [] text = "Rainf" -> cell = "Rainf_f_tavg"
    [] text = "Wind"  -> cell = "Wind_f_inst"
    [] text = "Qair"  -> cell = "Qair_f_inst"
    [] text = "Title:" -> cell = "Title: GLDAS"
    [] OTHER -> FALSE

\* cell.length > 8
longerThan8(cell) ==
  cell \in {"2015-01-01 00:00:00", "2015-01-01 03:00:00", "2015-01-02 00:00:00",
            "2015-01-03 00:00:00", "2015-03-07 00:00:00", "2015-03-08 00:00:00",
            "2015-03-09 00:00:00", "2015-03-10 00:00:00", "2015-13-45 99:99:99",
            "Title: GLDAS"}

\* position of a date among the keys in the order Array.prototype.sort gives
dateRank(date) ==
  CASE date = "2014-12-31" -> 1
    [] date = "2015-01-01" -> 2
    [] date = "2015-01-02" -> 3
    [] date = "2015-01-03" -> 4
    [] date = "2015-03-06" -> 5
    [] date = "2015-03-07" -> 6
    [] date = "2015-03-08" -> 7
    [] date = "2015-03-09" -> 8
    [] date = "2015-03-10" -> 9
    [] date = "2015-13-45" -> 10

\* Map.prototype.has, get, and the has/set/get/push of the loaders
mapHas(m, key) == \E i \in DOMAIN m : m[i].key = key

mapGet(m, key) == m[CHOOSE i \in DOMAIN m : m[i].key = key].value

mapPush(m, key, reading) ==
  IF mapHas(m, key)
    THEN [i \in DOMAIN m |->
            IF m[i].key = key
              THEN [key |-> key, value |-> Append(m[i].value, reading)]
              ELSE m[i]]
    ELSE Append(m, [key |-> key, value |-> <<reading>>])

mapKeys(m) == {m[i].key : i \in DOMAIN m}

\* line.startsWith('time,') && line.includes(name)
isHeaderLine(line, name) ==
  /\ Len(line) >= 2
  /\ line[1] = "time"
  /\ \E j \in DOMAIN line : includes(line[j], name)

\* headerLineIndex, counted from 1; 0 for the -1 of the source
headerLineIndex(lines, name) ==
  IF \E i \in DOMAIN lines : isHeaderLine(lines[i], name)
    THEN CHOOSE i \in DOMAIN lines :
           /\ isHeaderLine(lines[i], name)
           /\ \A j \in 1..(i - 1) : ~isHeaderLine(lines[j], name)
    ELSE 0

\* header.findIndex(col => col.includes(text)), counted from 1
findIndex(header, text) ==
  IF \E j \in DOMAIN header : includes(header[j], text)
    THEN CHOOSE j \in DOMAIN header :
           /\ includes(header[j], text)
           /\ \A k \in 1..(j - 1) : ~includes(header[k], text)
    ELSE 0

\* the conditions under which a line after the header becomes a reading
\* (precipitationProcessor.js:54-62)
acceptsRow(columns, timeCol, valueCol) ==
  /\ Len(columns) >= IMax(timeCol, valueCol)
  /\ columns[timeCol] # ""
  /\ columns[valueCol] \in DOMAIN parseFloat
  /\ parseFloat[columns[valueCol]] # FillValue * 10

\* { time, value, raw } (precipitationProcessor.js:73-77); value is raw * 3600
\* for precipitation and raw for wind speed
readingOf(columns, timeCol, valueCol, factor) ==
  [time  |-> splitOnSpace(columns[timeCol])[2],
   value |-> DMulS(Num(parseFloat[columns[valueCol]]), factor),
   raw   |-> parseFloat[columns[valueCol]]]

\* the Map after the loop over lines[i], ..., lines[lines.length - 1]
RECURSIVE insertRows(_, _, _, _, _, _)
insertRows(m, lines, i, timeCol, valueCol, factor) ==
  IF i > Len(lines) THEN m
  ELSE IF acceptsRow(lines[i], timeCol, valueCol)
    THEN insertRows(mapPush(m, splitOnSpace(lines[i][timeCol])[1],
                            readingOf(lines[i], timeCol, valueCol, factor)),
                    lines, i + 1, timeCol, valueCol, factor)
  ELSE insertRows(m, lines, i + 1, timeCol, valueCol, factor)

\* how often the loop runs this.totalRecords++
acceptedRows(lines, from, timeCol, valueCol) ==
  Cardinality({i \in from..Len(lines) : acceptsRow(lines[i], timeCol, valueCol)})

\* dates[0] and dates[dates.length - 1] of the sorted keys
firstDate(m) ==
  CHOOSE d \in mapKeys(m) : \A e \in mapKeys(m) : dateRank(d) <= dateRank(e)

lastDate(m) ==
  CHOOSE d \in mapKeys(m) : \A e \in mapKeys(m) : dateRank(d) >= dateRank(e)

\* precipitationProcessor.js:83-92, once the loop has filled the Map
loadedProcessor(m, totalRecords, dateRange) ==
  [promise      |-> "resolved",
   data         |-> m,
   isDataLoaded |-> TRUE,
   totalRecords |-> totalRecords,
   dateRange    |-> IF m = <<>> THEN dateRange
                    ELSE [start |-> firstDate(m), end |-> lastDate(m)]]

\* precipitationProcessor.js:43-81, with the header line found
loadFromHeader(proc, lines, h, timeCol, valueCol, factor) ==
  IF timeCol = 0 \/ valueCol = 0
    THEN [promise |-> "rejected", error |-> "Could not find time or value columns"]
    ELSE loadedProcessor(
           insertRows(proc.data, lines, h + 1, timeCol, valueCol, factor),
           proc.totalRecords + acceptedRows(lines, h + 1, timeCol, valueCol),
           proc.dateRange)

\* precipitationProcessor.js:23-43
loadLines(proc, lines, h, name, factor) ==
  IF h = 0
    THEN [promise |-> "rejected", error |-> "Could not find data header"]
    ELSE loadFromHeader(proc, lines, h, findIndex(lines[h], "time"),
                        findIndex(lines[h], name), factor)

\* loadPrecipitationData / loadWindSpeedData on a processor whose Map,
\* totalRecords and dateRange are proc.data, proc.totalRecords, proc.dateRange
loadCsv(proc, file, name, factor) ==
  IF ~file.exists
    THEN [promise |-> "rejected", error |-> "data file not found"]
    ELSE loadLines(proc, file.lines, headerLineIndex(file.lines, name), name, factor)

(***************************************************************************)
(* The humidity loader: csv-parser hands the 'data' handler one row at a   *)
(* time; the 'end' handler builds the Map.                                 *)
(***************************************************************************)
\* humidityProcessor.js:33-50: the row becomes a record of results
keepsRow(values) ==
  /\ values[1] # ""
  /\ ~includes(values[1], "time")
  /\ ~includes(values[1], "Title:")
  /\ longerThan8(values[1])
  /\ Len(values) >= 2
  /\ values[2] \in DOMAIN parseFloat
  /\ parseFloat[values[2]] > FillValue * 10

recordOf(values) == [timestamp |-> values[1], humidity |-> Num(parseFloat[values[2]])]

\* results after the 'data' handler has seen the row
onData(results, values) ==
  IF keepsRow(values) THEN Append(results, recordOf(values)) ELSE results

\* the first record of results whose timestamp is an Invalid Date, on which
\* record.timestamp.toISOString() throws RangeError; 0 if there is none
firstInvalid(results) ==
  IF \E i \in DOMAIN results : ~isValidDate(results[i].timestamp)
    THEN CHOOSE i \in DOMAIN results :
           /\ ~isValidDate(results[i].timestamp)
           /\ \A j \in 1..(i - 1) : isValidDate(results[j].timestamp)
    ELSE 0

\* the Map after results.forEach has handled results[i], ..., results[last]
RECURSIVE insertRecords(_, _, _, _, _)
insertRecords(m, results, i, last, tz) ==
  IF i > last THEN m
  ELSE insertRecords(mapPush(m, toISODate(results[i].timestamp, tz),
                             [time     |-> results[i].timestamp,
                              humidity |-> results[i].humidity]),
                     results, i + 1, last, tz)

\* humidityProcessor.js:59-78: the Map the 'end' handler leaves, the forEach
\* stopping at the first record it throws on
onEnd(m, results, invalid, tz) ==
  insertRecords(m, results, 1,
                IF invalid = 0 THEN Len(results) ELSE invalid - 1, tz)

(***************************************************************************)
(* Daily, range and monthly queries.                                       *)
(***************************************************************************)
readingValues(readings) == [i \in DOMAIN readings |-> readings[i].value]

\* a daily total over a 24-hour window instead of the 3-hour window
precipitationOfDayBy24(date, readings, values, total) ==
  [date                |-> date,
   readings            |-> Len(readings),
   daily_total_mm      |-> DMulS(total, 24),
   average_mm_per_hour |-> DDivS(total, Len(values)),
   max_mm_per_hour     |-> MathMax(values),
   min_mm_per_hour     |-> MathMin(values),
   raw_readings        |-> readings]

\* precipitationProcessor.js:101-123, for the readings of a date
precipitationOfDay(date, readings, values, total) ==
  [date                |-> date,
   readings            |-> Len(readings),
   daily_total_mm      |-> DMulS(total, 3),
   average_mm_per_hour |-> DDivS(total, Len(values)),
   max_mm_per_hour     |-> MathMax(values),
   min_mm_per_hour     |-> MathMin(values),
   raw_readings        |-> readings]

precipitationOfReadings(date, readings, values) ==
  precipitationOfDay(date, readings, values, reduceSum(values, DZero, 1, Len(values)))

\* getPrecipitationForDate once isDataLoaded has been checked
precipitationForDate(m, date) ==
  IF ~mapHas(m, date) THEN Null
  ELSE precipitationOfReadings(date, mapGet(m, date), readingValues(mapGet(m, date)))

getPrecipitationForDate(proc, date) ==
  IF ~proc.isDataLoaded THEN Throw("Precipitation data not loaded")
  ELSE Return(precipitationForDate(proc.precipitationData, date))

\* the calendar days a range query is asked for: four days around the new
\* year and four days around 2015-03-08, the day daylight saving time began
\* in New York
Calendar ==
  <<"2014-12-31", "2015-01-01", "2015-01-02", "2015-01-03",
    "2015-03-07", "2015-03-08", "2015-03-09", "2015-03-10">>

\* the number of a day, counted from 2014-12-31, and the day of a number
DayNumber(date) ==
  CASE date = "2014-12-31" -> 0
    [] date = "2015-01-01" -> 1
    [] date = "2015-01-02" -> 2
    [] date = "2015-01-03" -> 3
    [] date = "2015-03-07" -> 66
    [] date = "2015-03-08" -> 67
    [] date = "2015-03-09" -> 68
    [] date = "2015-03-10" -> 69

DateOfDay(n) ==
  IF \E i \in DOMAIN Calendar : DayNumber(Calendar[i]) = n
    THEN Calendar[CHOOSE i \in DOMAIN Calendar : DayNumber(Calendar[i]) = n]
    ELSE "another day"

\* new Date("YYYY-MM-DD"): midnight UTC of the day, in hours since
\* 2014-12-31T00:00Z
newDate(date) == 24 * DayNumber(date)

\* d.toISOString().split('T')[0]
isoDateOf(d) == DateOfDay(d \div 24)

\* the hour daylight saving time began in New York, 2015-03-08T07:00Z
DstStart == 24 * 67 + 7

\* local time minus UTC at the instant d, in hours
utcOffset(tz, d) ==
  CASE tz = "UTC" -> 0
    [] tz = "UTC+01:00" -> 1
    [] tz = "America/New_York" -> IF d < DstStart THEN -5 ELSE -4

\* the instant of a local time that is in no gap of the local clock
utcOfLocal(tz, local, offset) ==
  IF utcOffset(tz, local - offset) = offset THEN local - offset
  ELSE local - utcOffset(tz, local - offset)

\* d.setDate(d.getDate() + 1): the same local time on the next local day
setDateNext(d, tz) == utcOfLocal(tz, d + utcOffset(tz, d) + 24, utcOffset(tz, d))

\* for (d = new Date(start); d <= end; d.setDate(d.getDate() + 1)): the days
\* with data among d.toISOString().split('T')[0], in the order of the loop
RECURSIVE daysOfLoop(_, _, _, _)
daysOfLoop(m, d, end, tz) ==
  IF d > end THEN <<>>
  ELSE (IF mapHas(m, isoDateOf(d)) THEN <<isoDateOf(d)>> ELSE <<>>)
         \o daysOfLoop(m, setDateNext(d, tz), end, tz)

\* the days a range query from Calendar[from] to Calendar[to] returns
daysWithData(m, from, to) ==
  daysOfLoop(m, newDate(Calendar[from]), newDate(Calendar[to]), timezone)

\* getPrecipitationRange (precipitationProcessor.js:126-144)
getPrecipitationRange(proc, from, to) ==
  IF ~proc.isDataLoaded THEN Throw("Precipitation data not loaded")
  ELSE Return([k \in DOMAIN daysWithData(proc.precipitationData, from, to) |->
                 precipitationForDate(proc.precipitationData,
                                      daysWithData(proc.precipitationData, from, to)[k])])

\* date.startsWith(`${yearStr}-${monthStr}`)
startsWithMonth(date, month) ==
  CASE month = <<2014, 12>> -> date = "2014-12-31"
    [] month = <<2015, 1>>  ->
         date \in {"2015-01-01", "2015-01-02", "2015-01-03", "2015-01-04"}
    [] OTHER -> FALSE

\* the keys of the Map, in insertion order, that start with the month
RECURSIVE keysOfMonth(_, _, _)
keysOfMonth(m, i, month) ==
  IF i > Len(m) THEN <<>>
  ELSE IF startsWithMonth(m[i].key, month)
    THEN <<m[i].key>> \o keysOfMonth(m, i + 1, month)
  ELSE keysOfMonth(m, i + 1, month)

\* precipitationProcessor.js:164-182, from the daily totals of the month
monthlyOfTotals(month, totals, totalPrecip) ==
  [year  |-> month[1],
   month |-> month[2],
   days_with_data |-> Len(totals),
   total_monthly_precipitation_mm |-> totalPrecip,
   average_daily_precipitation_mm |-> DDivS(totalPrecip, Len(totals)),
   max_daily_precipitation_mm |-> MathMax(totals),
   rainy_days |-> Cardinality({i \in DOMAIN totals : DGt(totals[i], Num(1))})]

monthlyOfDays(month, totals) ==
  IF Len(totals) = 0 THEN Null
  ELSE monthlyOfTotals(month, totals, reduceSum(totals, DZero, 1, Len(totals)))

monthlyOfKeys(m, month, keys) ==
  monthlyOfDays(month, [k \in DOMAIN keys |-> precipitationForDate(m, keys[k]).daily_total_mm])

\* getMonthlyStatistics (precipitationProcessor.js:146-183)
getMonthlyStatistics(proc, month) ==
  IF ~proc.isDataLoaded THEN Throw("Precipitation data not loaded")
  ELSE Return(monthlyOfKeys(proc.precipitationData, month,
                            keysOfMonth(proc.precipitationData, 1, month)))

\* a route that answers without the check of notAvailable
alwaysAvailable(routed, proc) == FALSE

\* !precipitationProcessor || !precipitationProcessor.isDataLoaded
\* (precipitationRoutes.js:14, 62, 110)
notAvailable(routed, proc) == routed = "null" \/ ~proc.isDataLoaded

\* the answer of the date and monthly routes to well formed parameters, ret
\* being what the processor method returns or throws
answerOf(routed, proc, ret) ==
  IF notAvailable(routed, proc) THEN [status |-> 503]
  ELSE IF Threw(ret) THEN [status |-> 500, message |-> ret.error]
  ELSE IF IsNull(ret.value) THEN [status |-> 404]
  ELSE [status |-> 200, data |-> ret.value]

\* the answer of the range route, which has no 404
answerOfRange(routed, proc, ret) ==
  IF notAvailable(routed, proc) THEN [status |-> 503]
  ELSE IF Threw(ret) THEN [status |-> 500, message |-> ret.error]
  ELSE [status |-> 200, data |-> ret.value]

\* the category chain with its first test 'average > 0.3'
windCategoryAbove(average) ==
  IF DGt(average, Num(3)) /\ DLt(average, Num(16)) THEN "Light Air"
  ELSE IF DGe(average, Num(16)) /\ DLt(average, Num(34)) THEN "Light Breeze"
  ELSE IF DGe(average, Num(34)) /\ DLt(average, Num(55)) THEN "Gentle Breeze"
  ELSE IF DGe(average, Num(55)) /\ DLt(average, Num(80)) THEN "Moderate Breeze"
  ELSE IF DGe(average, Num(80)) /\ DLt(average, Num(108)) THEN "Fresh Breeze"
  ELSE IF DGe(average, Num(108)) /\ DLt(average, Num(139)) THEN "Strong Breeze"
  ELSE IF DGe(average, Num(139)) /\ DLt(average, Num(172)) THEN "Near Gale"
  ELSE IF DGe(average, Num(172)) /\ DLt(average, Num(208)) THEN "Gale"
  ELSE IF DGe(average, Num(208)) THEN "Strong Gale+"
  ELSE "Calm"

\* windCategory (windSpeedProcessor.js:111-121), thresholds in tenths of m/s
windCategory(average) ==
  IF DGe(average, Num(3)) /\ DLt(average, Num(16)) THEN "Light Air"
  ELSE IF DGe(average, Num(16)) /\ DLt(average, Num(34)) THEN "Light Breeze"
  ELSE IF DGe(average, Num(34)) /\ DLt(average, Num(55)) THEN "Gentle Breeze"
  ELSE IF DGe(average, Num(55)) /\ DLt(average, Num(80)) THEN "Moderate Breeze"
  ELSE IF DGe(average, Num(80)) /\ DLt(average, Num(108)) THEN "Fresh Breeze"
  ELSE IF DGe(average, Num(108)) /\ DLt(average, Num(139)) THEN "Strong Breeze"
  ELSE IF DGe(average, Num(139)) /\ DLt(average, Num(172)) THEN "Near Gale"
  ELSE IF DGe(average, Num(172)) /\ DLt(average, Num(208)) THEN "Gale"
  ELSE IF DGe(average, Num(208)) THEN "Strong Gale+"
  ELSE "Calm"

\* windSpeedProcessor.js:123-133, with the average of the day
windSpeedOfAverage(date, readings, values, average) ==
  [date                  |-> date,
   readings              |-> Len(readings),
   average_wind_speed_ms |-> average,
   max_wind_speed_ms     |-> MathMax(values),
   min_wind_speed_ms     |-> MathMin(values),
   wind_category         |-> windCategory(average)]

\* getWindSpeedForDate (windSpeedProcessor.js:105-133), for the readings of a
\* date
windSpeedOfDay(date, readings, values) ==
  windSpeedOfAverage(date, readings, values,
                     DDivS(reduceSum(values, DZero, 1, Len(values)), Len(values)))

getWindSpeedForDate(proc, date) ==
  IF ~proc.isDataLoaded THEN Throw("Wind speed data not loaded")
  ELSE IF ~mapHas(proc.windSpeedData, date) THEN Return(Null)
  ELSE Return(windSpeedOfDay(date, mapGet(proc.windSpeedData, date),
                             readingValues(mapGet(proc.windSpeedData, date))))

\* getWindSpeedForDate once isDataLoaded has been checked
windSpeedForDate(m, date) ==
  IF ~mapHas(m, date) THEN Null
  ELSE windSpeedOfDay(date, mapGet(m, date), readingValues(mapGet(m, date)))

\* getWindSpeedRange (windSpeedProcessor.js:136-154)
getWindSpeedRange(proc, from, to) ==
  IF ~proc.isDataLoaded THEN Throw("Wind speed data not loaded")
  ELSE Return([k \in DOMAIN daysWithData(proc.windSpeedData, from, to) |->
                 windSpeedForDate(proc.windSpeedData,
                                  daysWithData(proc.windSpeedData, from, to)[k])])

\* windSpeedProcessor.js:178-190, from the days of the month
windMonthlyOfAverages(month, monthlyData, averages) ==
  [year  |-> month[1],
   month |-> month[2],
   days_with_data |-> Len(monthlyData),
   average_monthly_wind_speed_ms |->
     DDivS(reduceSum(averages, DZero, 1, Len(averages)), Len(averages)),
   max_monthly_wind_speed_ms |->
     MathMax([k \in DOMAIN monthlyData |-> monthlyData[k].max_wind_speed_ms]),
   windy_days |-> Cardinality({k \in DOMAIN averages : DGt(averages[k], Num(55))})]

windMonthlyOfDays(month, monthlyData) ==
  IF Len(monthlyData) = 0 THEN Null
  ELSE windMonthlyOfAverages(month, monthlyData,
         [k \in DOMAIN monthlyData |-> monthlyData[k].average_wind_speed_ms])

windMonthlyOfKeys(m, month, keys) ==
  windMonthlyOfDays(month, [k \in DOMAIN keys |-> windSpeedForDate(m, keys[k])])

\* WindSpeedProcessor.getMonthlyStatistics (windSpeedProcessor.js:156-191)
getWindMonthlyStatistics(proc, month) ==
  IF ~proc.isDataLoaded THEN Throw("Wind speed data not loaded")
  ELSE Return(windMonthlyOfKeys(proc.windSpeedData, month,
                                keysOfMonth(proc.windSpeedData, 1, month)))

\* getHumidityForDate (humidityProcessor.js:91-118), dateKey being
\* date.toISOString().split('T')[0]
humidityOfDay(dateKey, dayData, humidityValues) ==
  [date            |-> dateKey,
   averageHumidity |-> DDivS(reduceSum(humidityValues, DZero, 1, Len(humidityValues)),
                             Len(humidityValues)),
   maxHumidity     |-> MathMax(humidityValues),
   minHumidity     |-> MathMin(humidityValues),
   recordCount     |-> Len(dayData)]

getHumidityForDate(proc, dateKey) ==
  IF ~proc.dataLoaded THEN Null
  ELSE IF ~mapHas(proc.humidityData, dateKey) THEN Null
  ELSE humidityOfDay(dateKey, mapGet(proc.humidityData, dateKey),
                     [i \in DOMAIN mapGet(proc.humidityData, dateKey) |->
                        mapGet(proc.humidityData, dateKey)[i].humidity])

\* getHumidityRange (humidityProcessor.js:120-137) over the days whose keys
\* are Calendar[from], ..., Calendar[to]
getHumidityRange(proc, from, to) ==
  IF ~proc.dataLoaded THEN <<>>
  ELSE [k \in DOMAIN daysWithData(proc.humidityData, from, to) |->
          getHumidityForDate(proc, daysWithData(proc.humidityData, from, to)[k])]

\* the local calendar day whose midnight, new Date(year, month, day), has the
\* date key dateKey
localDayOf(dateKey, tz) ==
  CASE tz = "UTC" -> dateKey
    [] tz = "UTC+01:00" ->
         CASE dateKey = "2014-12-31" -> "2015-01-01"
           [] dateKey = "2015-01-01" -> "2015-01-02"
           [] dateKey = "2015-01-02" -> "2015-01-03"
           [] dateKey = "2015-01-03" -> "2015-01-04"
           [] dateKey = "2015-03-07" -> "2015-03-08"
           [] dateKey = "2015-03-08" -> "2015-03-09"
           [] dateKey = "2015-03-09" -> "2015-03-10"
           [] dateKey = "2015-03-10" -> "2015-03-11"

\* the date keys with data that getHumidityRange(startDate, endDate) meets
\* between the first and the last local midnight of the month
humidityKeysOfMonth(m, month, tz) ==
  SelectSeq(Calendar, LAMBDA dateKey : /\ startsWithMonth(localDayOf(dateKey, tz), month)
                                       /\ mapHas(m, dateKey))

\* humidityProcessor.js:153-166, from the days of the month
humidityMonthlyOfDays(month, monthData) ==
  IF Len(monthData) = 0 THEN Null
  ELSE [year  |-> month[1],
        month |-> month[2],
        monthlyAverage |->
          DDivS(reduceSum([k \in DOMAIN monthData |-> monthData[k].averageHumidity],
                          DZero, 1, Len(monthData)), Len(monthData)),
        monthlyMax |-> MathMax([k \in DOMAIN monthData |-> monthData[k].maxHumidity]),
        monthlyMin |-> MathMin([k \in DOMAIN monthData |-> monthData[k].minHumidity]),
        daysWithData |-> Len(monthData)]

humidityMonthlyOfKeys(proc, month, keys) ==
  humidityMonthlyOfDays(month, [k \in DOMAIN keys |-> getHumidityForDate(proc, keys[k])])

\* HumidityProcessor.getMonthlyStatistics (humidityProcessor.js:139-167)
getHumidityMonthlyStatistics(proc, month, tz) ==
  IF ~proc.dataLoaded THEN Null
  ELSE humidityMonthlyOfKeys(proc, month, humidityKeysOfMonth(proc.humidityData, month, tz))

\* /^\d{4}-\d{2}-\d{2}$/.test(date)
matchesDateFormat(date) ==
  date \in {"2014-12-31", "2015-01-01", "2015-01-02", "2015-01-03", "2015-03-07",
            "2015-03-08", "2015-03-09", "2015-03-10", "2015-13-45"}

\* GET /precipitation/date/:date (precipitationRoutes.js:12-57)
precipitationDateRoute(routed, proc, date) ==
  IF notAvailable(routed, proc) THEN [status |-> 503]
  ELSE IF ~matchesDateFormat(date) THEN [status |-> 400]
  ELSE answerOf(routed, proc, getPrecipitationForDate(proc, date))

\* GET /precipitation/range (precipitationRoutes.js:60-105), the parameters
\* being Calendar[from] and Calendar[to]
precipitationRangeRoute(routed, proc, from, to) ==
  answerOfRange(routed, proc, getPrecipitationRange(proc, from, to))

\* GET /precipitation/monthly/:year/:month (precipitationRoutes.js:108-153)
precipitationMonthlyRoute(routed, proc, month) ==
  IF notAvailable(routed, proc) THEN [status |-> 503]
  ELSE IF month[2] < 1 \/ month[2] > 12 THEN [status |-> 400]
  ELSE answerOf(routed, proc, getMonthlyStatistics(proc, month))

(***************************************************************************)
(* The server: files on disk, the startup loads of index.js (a load may    *)
(* be called again), and queries.  A query ends the behaviour, so that     *)
(* every answer is checked against the state it was computed in.           *)
(***************************************************************************)
\* Largest number of data rows of a file
MaxRows == 2

\* Largest number of calls of one load operation
MaxLoads == 2

\* the data rows the files are made of
RowKinds ==
  { <<"2015-01-01 00:00:00", "5">>,
    <<"2015-01-01 03:00:00", "0">>,
    <<"2015-01-01 03:00:00", "0.5">>,
    <<"2015-01-02 00:00:00", "-3">>,
    <<"2015-01-01 03:00:00", "-9999">>,
    <<"2015-01-02 00:00:00", "-10000">>,
    <<"2015-01-01 00:00:00", "abc">>,
    <<"2015-01-02 00:00:00", "12abc">>,
    <<"2015-01-01 00:00:00">>,
    <<"", "5">>,
    <<"2015-13-45 99:99:99", "5">> }

Bodies == UNION {[1..n -> RowKinds] : n \in 0..MaxRows}

Loaders == {"precipitation", "wind_speed", "humidity"}

\* the column name of the variable in the header line of its file
columnOf(loader) ==
  CASE loader = "precipitation" -> "Rainf_f_tavg"
    [] loader = "wind_speed"    -> "Wind_f_inst"
    [] loader = "humidity"      -> "Qair_f_inst"

\* a file: a title line, the header line unless it is left out, the data
\* rows, and the empty line after the last line feed
fileOf(loader, body, damage) ==
  [exists |-> damage # "missing",
   lines  |-> <<<<"Title: GLDAS">>>>
              \o (IF damage = "no header" THEN <<>> ELSE <<<<"time", columnOf(loader)>>>>)
              \o body \o <<<<"">>>>]

\* the data rows of a file: its lines but the title line, the header line and
\* the empty last line
bodyOf(file) ==
  SelectSeq(file.lines,
            LAMBDA line : line # <<"">> /\ line[1] \notin {"Title: GLDAS", "time"})

hasHeader(file, name) == headerLineIndex(file.lines, name) # 0

InitServer ==
  /\ data = <<>>
  /\ threshold = 0
  /\ variable = "precipitation"
  /\ result = Idle
  /\ Constructed
  /\ NoFrontend
  /\ \/ \E body \in Bodies :
          /\ files = [l \in Loaders |-> fileOf(l, body, "none")]
          /\ timezone \in {"UTC", "UTC+01:00"}
     \/ \E body \in {b \in Bodies : Len(b) <= 1}, damaged \in Loaders,
           damage \in {"no header", "missing"} :
          /\ files = [l \in Loaders |->
                        fileOf(l, body, IF l = damaged THEN damage ELSE "none")]
          /\ timezone = "UTC"

Serving == ~crashed /\ response = NoResponse

\* what loadCsv works on
csvState(m, proc) ==
  [data |-> m, totalRecords |-> proc.totalRecords, dateRange |-> proc.dateRange]

\* precipitationProcessor.loadPrecipitationData().then(...) (index.js:44-53)
LoadPrecipitationData ==
  /\ Serving
  /\ loads.precipitation.calls < MaxLoads
  /\ \E r \in {loadCsv(csvState(precipitationProcessor.precipitationData,
                                precipitationProcessor),
                       files.precipitation, "Rainf", 3600)} :
       /\ precipitationProcessor' =
            IF r.promise = "resolved"
              THEN [precipitationData |-> r.data, isDataLoaded |-> r.isDataLoaded,
                    totalRecords |-> r.totalRecords, dateRange |-> r.dateRange]
              ELSE precipitationProcessor
       /\ routeProcessor' =
            IF r.promise = "resolved" THEN "precipitationProcessor" ELSE routeProcessor
       /\ loads' = [loads EXCEPT !.precipitation =
                      [calls |-> @.calls + 1, promise |-> r.promise]]
  /\ UNCHANGED <<engineVars, hookVars, files, timezone, windSpeedProcessor,
                 humidityProcessor, crashed, response>>

\* windSpeedProcessor.loadWindSpeedData().then(...) (index.js:56-65)
LoadWindSpeedData ==
  /\ Serving
  /\ loads.wind_speed.calls < MaxLoads
  /\ \E r \in {loadCsv(csvState(windSpeedProcessor.windSpeedData, windSpeedProcessor),
                       files.wind_speed, "Wind", 1)} :
       /\ windSpeedProcessor' =
            IF r.promise = "resolved"
              THEN [windSpeedData |-> r.data, isDataLoaded |-> r.isDataLoaded,
                    totalRecords |-> r.totalRecords, dateRange |-> r.dateRange]
              ELSE windSpeedProcessor
       /\ loads' = [loads EXCEPT !.wind_speed =
                      [calls |-> @.calls + 1, promise |-> r.promise]]
  /\ UNCHANGED <<engineVars, hookVars, files, timezone, precipitationProcessor,
                 humidityProcessor, routeProcessor, crashed, response>>

\* humidityProcessor.loadHumidityData() up to its return (index.js:31,
\* humidityProcessor.js:11-30): false, or the promise with the stream opened
LoadHumidityData ==
  /\ Serving
  /\ loads.humidity.calls < MaxLoads
  /\ loads.humidity.promise # "pending"
  /\ loads' = [loads EXCEPT !.humidity =
                 IF files.humidity.exists
                   THEN [calls |-> @.calls + 1, promise |-> "pending",
                         line |-> 1, results |-> <<>>]
                   ELSE [calls |-> @.calls + 1, promise |-> "returned false"]]
  /\ UNCHANGED <<engineVars, hookVars, files, timezone, precipitationProcessor,
                 windSpeedProcessor, humidityProcessor, routeProcessor, crashed,
                 response>>

\* the 'data' handler on the next row of the stream
HumidityData ==
  /\ Serving
  /\ loads.humidity.promise = "pending"
  /\ loads.humidity.line <= Len(files.humidity.lines)
  /\ loads' = [loads EXCEPT !.humidity =
                 [@ EXCEPT !.results = onData(@, files.humidity.lines[loads.humidity.line]),
                           !.line = @ + 1]]
  /\ UNCHANGED <<engineVars, hookVars, files, timezone, precipitationProcessor,
                 windSpeedProcessor, humidityProcessor, routeProcessor, crashed,
                 response>>

\* the 'end' handler; what it throws nothing catches
HumidityEnd ==
  /\ Serving
  /\ loads.humidity.promise = "pending"
  /\ loads.humidity.line > Len(files.humidity.lines)
  /\ \E invalid \in {firstInvalid(loads.humidity.results)} :
       /\ humidityProcessor' =
            [humidityData |-> onEnd(humidityProcessor.humidityData,
                                    loads.humidity.results, invalid, timezone),
             dataLoaded   |-> IF invalid = 0 THEN TRUE ELSE humidityProcessor.dataLoaded]
       /\ crashed' = (invalid # 0)
       /\ loads' = [loads EXCEPT !.humidity.promise =
                      IF invalid = 0 THEN "resolved" ELSE "pending"]
  /\ UNCHANGED <<engineVars, hookVars, files, timezone, precipitationProcessor,
                 windSpeedProcessor, routeProcessor, response>>

QueryDates == {"2015-01-01", "2015-01-02", "2015-13-45", "20150101"}

\* the ranges asked for, as positions in Calendar
QueryRanges == {<<1, 3>>, <<2, 2>>, <<2, 3>>, <<3, 2>>, <<5, 8>>}

QueryMonths == {<<2015, 1>>, <<2015, 2>>, <<2015, 13>>}

GetPrecipitationDate ==
  /\ Serving
  /\ \E date \in QueryDates :
       response' = [to     |-> "GET /precipitation/date",
                    date   |-> date,
                    answer |-> precipitationDateRoute(routeProcessor,
                                                      precipitationProcessor, date)]
  /\ UNCHANGED <<engineVars, hookVars, files, timezone, precipitationProcessor,
                 windSpeedProcessor, humidityProcessor, loads, routeProcessor, crashed>>

GetPrecipitationRange ==
  /\ Serving
  /\ \E range \in QueryRanges :
       response' = [to     |-> "GET /precipitation/range",
                    range  |-> range,
                    answer |-> precipitationRangeRoute(routeProcessor,
                                                       precipitationProcessor,
                                                       range[1], range[2])]
  /\ UNCHANGED <<engineVars, hookVars, files, timezone, precipitationProcessor,
                 windSpeedProcessor, humidityProcessor, loads, routeProcessor, crashed>>

GetPrecipitationMonthly ==
  /\ Serving
  /\ \E month \in QueryMonths :
       response' = [to     |-> "GET /precipitation/monthly",
                    month  |-> month,
                    answer |-> precipitationMonthlyRoute(routeProcessor,
                                                         precipitationProcessor, month)]
  /\ UNCHANGED <<engineVars, hookVars, files, timezone, precipitationProcessor,
                 windSpeedProcessor, humidityProcessor, loads, routeProcessor, crashed>>

GetWindSpeedForDate ==
  /\ Serving
  /\ \E date \in {"2015-01-01", "2015-01-02"} :
       response' = [to   |-> "getWindSpeedForDate",
                    date |-> date,
                    ret  |-> getWindSpeedForDate(windSpeedProcessor, date)]
  /\ UNCHANGED <<engineVars, hookVars, files, timezone, precipitationProcessor,
                 windSpeedProcessor, humidityProcessor, loads, routeProcessor, crashed>>

GetHumidityForDate ==
  /\ Serving
  /\ \E dateKey \in {"2015-01-01", "2015-01-02"} :
       response' = [to   |-> "getHumidityForDate",
                    date |-> dateKey,
                    ret  |-> getHumidityForDate(humidityProcessor, dateKey)]
  /\ UNCHANGED <<engineVars, hookVars, files, timezone, precipitationProcessor,
                 windSpeedProcessor, humidityProcessor, loads, routeProcessor, crashed>>

GetHumidityRange ==
  /\ Serving
  /\ \E range \in {<<1, 3>>, <<3, 2>>, <<5, 8>>} :
       response' = [to    |-> "getHumidityRange",
                    range |-> range,
                    ret   |-> getHumidityRange(humidityProcessor, range[1], range[2])]
  /\ UNCHANGED <<engineVars, hookVars, files, timezone, precipitationProcessor,
                 windSpeedProcessor, humidityProcessor, loads, routeProcessor, crashed>>

GetWindSpeedRange ==
  /\ Serving
  /\ \E range \in {<<1, 3>>, <<3, 2>>, <<5, 8>>} :
       response' = [to    |-> "getWindSpeedRange",
                    range |-> range,
                    ret   |-> getWindSpeedRange(windSpeedProcessor, range[1], range[2])]
  /\ UNCHANGED <<engineVars, hookVars, files, timezone, precipitationProcessor,
                 windSpeedProcessor, humidityProcessor, loads, routeProcessor, crashed>>

GetWindSpeedMonthly ==
  /\ Serving
  /\ \E month \in {<<2015, 1>>, <<2015, 2>>} :
       response' = [to    |-> "getWindSpeedMonthly",
                    month |-> month,
                    ret   |-> getWindMonthlyStatistics(windSpeedProcessor, month)]
  /\ UNCHANGED <<engineVars, hookVars, files, timezone, precipitationProcessor,
                 windSpeedProcessor, humidityProcessor, loads, routeProcessor, crashed>>

GetHumidityMonthly ==
  /\ Serving
  /\ \E month \in {<<2014, 12>>, <<2015, 1>>} :
       response' = [to    |-> "getHumidityMonthly",
                    month |-> month,
                    ret   |-> getHumidityMonthlyStatistics(humidityProcessor, month,
                                                           timezone)]
  /\ UNCHANGED <<engineVars, hookVars, files, timezone, precipitationProcessor,
                 windSpeedProcessor, humidityProcessor, loads, routeProcessor, crashed>>

NextServer ==
  \/ LoadPrecipitationData
  \/ LoadWindSpeedData
  \/ LoadHumidityData
  \/ HumidityData
  \/ HumidityEnd
  \/ GetPrecipitationDate
  \/ GetPrecipitationRange
  \/ GetPrecipitationMonthly
  \/ GetWindSpeedForDate
  \/ GetHumidityForDate
  \/ GetHumidityRange
  \/ GetWindSpeedRange
  \/ GetWindSpeedMonthly
  \/ GetHumidityMonthly

SpecServer == InitServer /\ [][NextServer]_vars

(***************************************************************************)
(* The daily and monthly arithmetic: precipitation and wind speed files of *)
(* up to MaxDayRows readings that binary64 does not hold exactly, on three *)
(* days in any order, and files with one reading at or next to a category  *)
(* threshold.                                                              *)
(***************************************************************************)
\* Largest number of data rows of a file of readings
MaxDayRows == 3

DayRows ==
  {<<t, v>> : t \in {"2015-01-01 00:00:00", "2015-01-01 03:00:00",
                     "2015-01-02 00:00:00", "2015-01-03 00:00:00"},
              v \in {"0.1", "0.2", "0.3"}}

\* one reading at each category threshold and a tenth below it
ThresholdRows ==
  {<<"2015-01-01 00:00:00", v>> :
     v \in {"-3", "0", "0.2", "0.3", "1.5", "1.6", "3.3", "3.4", "5.4", "5.5",
            "7.9", "8", "10.7", "10.8", "13.8", "13.9", "17.1", "17.2", "20.7",
            "20.8", "25"}}

DayBodies ==
  UNION {[1..n -> DayRows] : n \in 0..MaxDayRows} \cup {<<row>> : row \in ThresholdRows}

InitDays ==
  /\ data = <<>>
  /\ threshold = 0
  /\ variable = "wind_speed"
  /\ result = Idle
  /\ Constructed
  /\ NoFrontend
  /\ timezone = "UTC"
  /\ \E body \in DayBodies : files = [l \in Loaders |-> fileOf(l, body, "none")]

NextDays ==
  \/ LoadPrecipitationData
  \/ LoadWindSpeedData
  \/ GetPrecipitationDate
  \/ GetPrecipitationRange
  \/ GetPrecipitationMonthly
  \/ GetWindSpeedForDate
  \/ GetWindSpeedRange
  \/ GetWindSpeedMonthly

SpecDays == InitDays /\ [][NextDays]_vars

(***************************************************************************)
(* The analysis endpoints.  calculateStatistics of the Giovanni route works *)
(* on the yearly sample of a request; POST /precipitation-analysis and     *)
(* POST /windspeed-analysis work on the days a range query returns.  Of the *)
(* objects returned, the fields computed from the count of adverse values  *)
(* are modelled; the trend, the distribution, the confidence interval and  *)
(* the random forecast are not.                                            *)
(***************************************************************************)
\* calculateStatistics of giovanniAnalysis.js:164-221 on a non-empty sample
giovanniOfValues(values, thr, exceedCount) ==
  [probability |-> FromRat(exceedCount, Len(values)),
   average     |-> DDivS(reduceSum(values, DZero, 1, Len(values)), Len(values)),
   dataYears   |-> Len(values)]

giovanniStatistics(d, thr, var) ==
  IF Len(d) = 0
    THEN [probability |-> Num(5), average |-> thr, dataYears |-> 0]
    ELSE giovanniOfValues(valuesOf(d), thr,
           Cardinality({i \in DOMAIN d : DGe(valueOf(d[i]), thr)}))

\* days.filter(day => day.value > threshold).length
\* (precipitationRoutes.js:221-223, historicalAnalysis.js:414-416)
daysAboveThreshold(values, thr) ==
  Cardinality({k \in DOMAIN values : DGt(values[k], thr)})

\* the analysis of a non-empty list of days: likelihood is
\* Math.round(likelihood * 10) / 10
analysisOfCount(values, above) ==
  [status   |-> 200,
   analysis |->
     [likelihood |->
        DDivS(FromInt(MathRound(DMulS(DMulS(FromRat(above, Len(values)), 100), 10))),
              10),
      days_analyzed        |-> Len(values),
      days_above_threshold |-> above]]

analysisOfDays(values, thr) ==
  IF Len(values) = 0 THEN [status |-> 404]
  ELSE analysisOfCount(values, daysAboveThreshold(values, thr))

\* POST /precipitation-analysis (precipitationRoutes.js:184-274) with
\* startDate = Calendar[from] and endDate = Calendar[to]
precipitationAnalysisOfRange(days, thr) ==
  analysisOfDays([k \in DOMAIN days |-> days[k].daily_total_mm], thr)

precipitationAnalysisRoute(routed, proc, location, thr, from, to) ==
  IF notAvailable(routed, proc) THEN [status |-> 503]
  ELSE IF location = "" THEN [status |-> 400]
  ELSE precipitationAnalysisOfRange(getPrecipitationRange(proc, from, to).value, thr)

\* POST /windspeed-analysis (historicalAnalysis.js:377-466); the route has the
\* processor once its load has resolved
windSpeedAnalysisOfRange(days, thr) ==
  analysisOfDays([k \in DOMAIN days |-> days[k].average_wind_speed_ms], thr)

windSpeedAnalysisRoute(proc, location, thr, from, to) ==
  IF ~proc.isDataLoaded THEN [status |-> 503]
  ELSE IF location = "" THEN [status |-> 400]
  ELSE windSpeedAnalysisOfRange(getWindSpeedRange(proc, from, to).value, thr)

GiovanniStatistics ==
  /\ result = Idle
  /\ result' = [fn  |-> "giovanniStatistics",
                ret |-> giovanniStatistics(data, Num(threshold), variable)]
  /\ UNCHANGED <<data, threshold, variable, serverVars, hookVars>>

PrecipitationAnalysis ==
  /\ Serving
  /\ \E location \in {"", "London"} :
       response' = [to       |-> "POST /precipitation-analysis",
                    location |-> location,
                    answer   |-> precipitationAnalysisRoute(routeProcessor,
                                   precipitationProcessor, location, Num(threshold),
                                   2, 4)]
  /\ UNCHANGED <<engineVars, hookVars, files, timezone, precipitationProcessor,
                 windSpeedProcessor, humidityProcessor, loads, routeProcessor, crashed>>

WindSpeedAnalysis ==
  /\ Serving
  /\ \E location \in {"", "London"} :
       response' = [to       |-> "POST /windspeed-analysis",
                    location |-> location,
                    answer   |-> windSpeedAnalysisRoute(windSpeedProcessor, location,
                                                       Num(threshold), 2, 4)]
  /\ UNCHANGED <<engineVars, hookVars, files, timezone, precipitationProcessor,
                 windSpeedProcessor, humidityProcessor, loads, routeProcessor, crashed>>

\* the largest yearly sample and the most rows of a file of the endpoints
MaxEndpointN == 2

MaxEndpointRows == 2

\* value pattern and threshold (tenths) of the requests: a threshold that a
\* sample value, a daily wind speed average (0.1) and a daily precipitation
\* total (0.1 * 3600 * 3 = 1080) are equal to
EndpointProfiles == {<<"tenths", 1>>, <<"flat", 250>>, <<"frost", 0>>, <<"ramp", 10800>>}

EndpointRows ==
  {<<t, v>> : t \in {"2015-01-01 00:00:00", "2015-01-02 00:00:00"}, v \in {"0.1", "0.3"}}

EndpointBodies == UNION {[1..n -> EndpointRows] : n \in 0..MaxEndpointRows}

InitEndpoints ==
  /\ result = Idle
  /\ Constructed
  /\ NoFrontend
  /\ timezone = "UTC"
  /\ variable \in {"max_temp", "min_temp", "precipitation", "wind_speed"}
  /\ \E p \in EndpointProfiles, n \in 0..MaxEndpointN :
       /\ data = sample(p[1], "asc", n)
       /\ threshold = p[2]
  /\ \E body \in EndpointBodies : files = [l \in Loaders |-> fileOf(l, body, "none")]

NextEndpoints ==
  \/ CalculateProbability
  \/ GiovanniStatistics
  \/ LoadPrecipitationData
  \/ LoadWindSpeedData
  \/ PrecipitationAnalysis
  \/ WindSpeedAnalysis

SpecEndpoints == InitEndpoints /\ [][NextEndpoints]_vars

(***************************************************************************)
(* The range queries over the days around the start of daylight saving     *)
(* time, in a process whose timezone is UTC, a fixed offset, or New York.  *)
(* Every file has the same rows, one reading on each of up to MaxDstRows   *)
(* days.                                                                   *)
(***************************************************************************)
MaxDstRows == 2

DstRows ==
  {<<t, "5">> : t \in {"2015-03-07 00:00:00", "2015-03-08 00:00:00",
                       "2015-03-09 00:00:00", "2015-03-10 00:00:00"}}

DstBodies == UNION {[1..n -> DstRows] : n \in 0..MaxDstRows}

InitRange ==
  /\ data = <<>>
  /\ threshold = 0
  /\ variable = "precipitation"
  /\ result = Idle
  /\ Constructed
  /\ NoFrontend
  /\ timezone \in {"UTC", "UTC+01:00", "America/New_York"}
  /\ \E body \in DstBodies : files = [l \in Loaders |-> fileOf(l, body, "none")]

NextRange ==
  \/ LoadPrecipitationData
  \/ LoadWindSpeedData
  \/ LoadHumidityData
  \/ HumidityData
  \/ HumidityEnd
  \/ GetPrecipitationRange
  \/ GetWindSpeedRange
  \/ GetHumidityRange

SpecRange == InitRange /\ [][NextRange]_vars

(***************************************************************************)
(* The frontend hook.  fetchData runs up to its await when it is called;   *)
(* the rest of it runs when its request settles, each request on its own   *)
(* time, so two calls may settle in either order.  What a request answers  *)
(* is named by its query.                                                  *)
(***************************************************************************)
\* the most calls of fetchData
MaxFetches == 3

\* the queries submitted, told apart by the variable asked for
Queries ==
  {[variable |-> v] : v \in {"humidity", "precipitation", "wind_speed", "max_temp"}}

\* the endpoint fetchData posts a query to (part_006:450-466)
endpointOf(queryParams) ==
  CASE queryParams.variable = "humidity"      -> "/api/humidity-analysis"
    [] queryParams.variable = "precipitation" -> "/api/precipitation-analysis"
    [] queryParams.variable = "wind_speed"    -> "/api/windspeed-analysis"
    [] OTHER                                  -> "/api/historical-analysis"

\* the generator of the fallback data of a query (part_006:473-489)
fallbackOf(queryParams) ==
  CASE queryParams.variable = "humidity"      -> "generateHumidityFallbackData"
    [] queryParams.variable = "precipitation" -> "generatePrecipitationFallbackData"
    [] queryParams.variable = "wind_speed"    -> "generateWindSpeedFallbackData"
    [] OTHER                                  -> "generateNASAFallbackData"

\* response.data of the request of a query, and the fallback data of a query
responseData(queryParams) == [of |-> queryParams, from |-> endpointOf(queryParams)]

fallbackData(queryParams) == [of |-> queryParams, from |-> fallbackOf(queryParams)]

\* fetchData up to its await (part_006:441-466)
fetchStarted(h) == [h EXCEPT !.loading = TRUE, !.error = Null, !.data = Null]

\* fetchData from its await on: setData, and setLoading(false) in finally
\* (part_006:468-497)
fetchSettled(h, settledData) == [h EXCEPT !.data = settledData, !.loading = FALSE]

InitHook ==
  /\ data = <<>>
  /\ threshold = 0
  /\ variable = "max_temp"
  /\ result = Idle
  /\ NoServer
  /\ NoFrontend

FetchData ==
  /\ Len(requests) < MaxFetches
  /\ \E queryParams \in Queries :
       /\ hook' = fetchStarted(hook)
       /\ requests' = Append(requests, [query |-> queryParams, state |-> "in flight"])
  /\ UNCHANGED <<engineVars, serverVars>>

\* the request answers: the try block goes on after the await
Resolve ==
  /\ \E i \in DOMAIN requests :
       /\ requests[i].state = "in flight"
       /\ hook' = fetchSettled(hook, responseData(requests[i].query))
       /\ requests' = [requests EXCEPT ![i].state = "settled"]
  /\ UNCHANGED <<engineVars, serverVars>>

\* the request fails or times out: the catch block
Reject ==
  /\ \E i \in DOMAIN requests :
       /\ requests[i].state = "in flight"
       /\ hook' = fetchSettled(hook, fallbackData(requests[i].query))
       /\ requests' = [requests EXCEPT ![i].state = "settled"]
  /\ UNCHANGED <<engineVars, serverVars>>

\* reset (part_006:501-505)
Reset ==
  /\ hook' = [hook EXCEPT !.data = Null, !.error = Null, !.loading = FALSE]
  /\ UNCHANGED <<engineVars, serverVars, requests>>

NextHook == FetchData \/ Resolve \/ Reject \/ Reset

SpecHook == InitHook /\ [][NextHook]_vars

(***************************************************************************)
(* Properties.                                                             *)
(***************************************************************************)
Called(f) == result.fn = f
Returned(f) == result.fn = f /\ ~Threw(result.ret)

\* the adverse operator of the four variables the engine documents
adverseOperator(var) ==
  CASE var = "min_temp" -> "<="
    [] var \in {"max_temp", "precipitation", "wind_speed"} -> ">="
    [] OTHER -> "none"

\* number of records whose decimal value meets the operator against the
\* decimal threshold (both in tenths)
exceedances(recs, op) ==
  Cardinality({i \in DOMAIN recs :
    IF op = ">=" THEN recs[i].value >= threshold ELSE recs[i].value <= threshold})

\* h hundredths is 100 * c / n rounded to 2 decimals
IsPercentOf(h, c, n) == 2 * Abs(h * n - 10000 * c) <= n

RECURSIVE SeqSum(_)
SeqSum(q) == IF q = <<>> THEN 0 ELSE Head(q) + SeqSum(Tail(q))

Records(d) == {d[i] : i \in DOMAIN d}

\* the sample of the worked example: years 2014-2023, values 10, 20, ..., 100
ExampleRecords == {[year |-> 2013 + i, value |-> 100 * i] : i \in 1..10}

\* C1 (as claimed): for an empty sample calculateStatistics returns a result
\* with probability 0 and mean 0, and does not throw.
C1_EmptySampleReturnsZeros ==
  (Called("calculateStatistics") /\ Len(data) = 0)
    => /\ ~Threw(result.ret)
       /\ result.ret.value.probability = 0
       /\ result.ret.value.mean = 0

\* C1 (amended): for an empty sample calculateProbability returns 0 and
\* calculateMean returns 0 (a number, nothing thrown), while calculateStatistics
\* rejects the sample: it throws 'No historical data available for analysis'.
C1_EmptySample ==
  Len(data) = 0 =>
    /\ Called("calculateProbability") => result.ret = Return(DZero)
    /\ Called("calculateMean") => result.ret = Return(DZero)
    /\ Called("calculateStatistics")
         => result.ret = Throw("No historical data available for analysis")

C1_Witness == Len(data) = 0 /\ Called("calculateStatistics") /\ Threw(result.ret)

\* C2: for a non-empty sample and a recognised variable the probability lies
\* in [0, 100], both as calculateProbability returns it and as
\* calculateStatistics reports it.
C2_ProbabilityWithinBounds ==
  /\ (Returned("calculateProbability") /\ Len(data) > 0)
       => DGe(result.ret.value, DZero) /\ DLe(result.ret.value, FromInt(100))
  /\ Returned("calculateStatistics")
       => result.ret.value.probability \in 0..10000

C2_Witness ==
  /\ Returned("calculateStatistics")
  /\ result.ret.value.probability > 0
  /\ result.ret.value.probability < 10000

\* C3: the probability is 100 * (number of values meeting the variable's
\* operator against the threshold) / N rounded to 2 decimals, with <= for
\* min_temp and >= for max_temp, precipitation and wind_speed; the example
\* sample with threshold 55 and >= gives 50.00.
C3_ExceedanceProbability ==
  /\ (Returned("calculateStatistics") /\ adverseOperator(variable) # "none")
       => IsPercentOf(result.ret.value.probability,
                      exceedances(data, adverseOperator(variable)), Len(data))
  /\ (Returned("calculateProbability") /\ Len(data) > 0
        /\ adverseOperator(variable) # "none")
       => IsPercentOf(Round2(result.ret.value),
                      exceedances(data, adverseOperator(variable)), Len(data))
  /\ (Returned("calculateStatistics") /\ Records(data) = ExampleRecords
        /\ Len(data) = 10 /\ threshold = 550 /\ adverseOperator(variable) = ">=")
       => /\ exceedances(data, ">=") = 5
          /\ result.ret.value.probability = 5000

C3_Witness ==
  /\ Returned("calculateStatistics")
  /\ Records(data) = ExampleRecords /\ Len(data) = 10
  /\ threshold = 550 /\ variable = "wind_speed"
  /\ result.ret.value.probability = 5000

\* C4: with fewer than 10 elements the trend analysis makes no split: the
\* trend change is 0 and the description says the data is insufficient.
C4_ShortSampleHasNoTrend ==
  /\ (Called("calculateTrendAnalysis") /\ Len(data) < 10)
       => /\ ~Threw(result.ret)
          /\ result.ret.value.trendChange = DZero
          /\ result.ret.value.description = [kind |-> "insufficient"]
          /\ DOMAIN result.ret.value = {"trendChange", "description"}
  /\ (Returned("calculateStatistics") /\ Len(data) < 10)
       => /\ result.ret.value.trendChange = 0
          /\ result.ret.value.trendAnalysis = [kind |-> "insufficient"]

\* nine years whose halves would differ: 10..40 below the threshold, 60..90 above
C4_Witness ==
  /\ Returned("calculateTrendAnalysis")
  /\ Len(data) = 9 /\ threshold = 550 /\ variable = "max_temp"
  /\ exceedances(data, ">=") = 4
  /\ result.ret.value.description.kind = "insufficient"

\* the records of d that have fewer than k records with a smaller year
SmallestYears(d, k) ==
  {i \in DOMAIN d : Cardinality({j \in DOMAIN d : d[j].year < d[i].year}) < k}

\* 100 * c / n as the engine's arithmetic yields it
Percent(c, n) == DMulS(FromRat(c, n), 100)

adverseAmong(d, idx, op) ==
  Cardinality({i \in idx :
    IF op = ">=" THEN d[i].value >= threshold ELSE d[i].value <= threshold})

\* the early and recent probabilities the claim prescribes for the sample
ExpectedEarly(d, op) ==
  Percent(adverseAmong(d, SmallestYears(d, Len(d) \div 2), op), Len(d) \div 2)

ExpectedRecent(d, op) ==
  Percent(adverseAmong(d, DOMAIN d \ SmallestYears(d, Len(d) \div 2), op),
          Len(d) - (Len(d) \div 2))

\* C5: for N >= 10, whatever the order of the sample, the early half is the
\* floor(N/2) records of the smallest years and the recent half the other
\* N - floor(N/2); each half's probability uses the same operator and
\* threshold and trendChange = recent - early.  The example sample with
\* threshold 55 and >= gives early 0, recent 100, trendChange +100.
C5_SplitBySmallestYears ==
  /\ (Returned("calculateTrendAnalysis") /\ Len(data) >= 10
        /\ adverseOperator(variable) # "none")
       => LET op == adverseOperator(variable)
              r  == result.ret.value
          IN  /\ r.earlyProbability = ExpectedEarly(data, op)
              /\ r.recentProbability = ExpectedRecent(data, op)
              /\ r.trendChange = DSub(r.recentProbability, r.earlyProbability)
              /\ \A i \in DOMAIN data :
                   IF i \in SmallestYears(data, Len(data) \div 2)
                     THEN data[i].year <= r.earlyPeriod[2]
                     ELSE data[i].year >= r.recentPeriod[1]
  /\ (Returned("calculateStatistics") /\ Len(data) >= 10
        /\ adverseOperator(variable) # "none")
       => LET op == adverseOperator(variable)
              r  == result.ret.value
          IN  /\ r.trendAnalysis.earlyProbability = ExpectedEarly(data, op)
              /\ r.trendAnalysis.recentProbability = ExpectedRecent(data, op)
              /\ r.trendChange =
                   Round2(DSub(ExpectedRecent(data, op), ExpectedEarly(data, op)))
  /\ (Returned("calculateStatistics") /\ Records(data) = ExampleRecords
        /\ Len(data) = 10 /\ threshold = 550 /\ adverseOperator(variable) = ">=")
       => LET r == result.ret.value
          IN  /\ r.trendAnalysis.earlyProbability = DZero
              /\ r.trendAnalysis.recentProbability = FromInt(100)
              /\ r.trendChange = 10000
              /\ r.trendAnalysis.kind = "increased"

\* an odd sample handed over in descending order of years
C5_Witness ==
  /\ Returned("calculateStatistics")
  /\ Len(data) = 11 /\ threshold = 550 /\ variable = "max_temp"
  /\ result.ret.value.rawData.years[1] > result.ret.value.rawData.years[2]
  /\ result.ret.value.trendAnalysis.earlyYears = <<2014, 2018>>
  /\ result.ret.value.trendAnalysis.recentYears = <<2019, 2024>>
  /\ result.ret.value.trendChange = 10000

\* C6: for N >= 10 the description is 'stable' exactly when |trendChange| < 2,
\* 'increased' exactly when trendChange >= 2 and 'decreased' exactly when
\* trendChange <= -2; an 'increased' result reports a positive trendChange
\* and a 'decreased' one a negative trendChange.
C6_TrendBranch ==
  /\ (Returned("calculateTrendAnalysis") /\ Len(data) >= 10)
       => LET t == result.ret.value.trendChange
              k == result.ret.value.description.kind
          IN  /\ k \in {"stable", "increased", "decreased"}
              /\ k = "stable" <=> DLt(DAbs(t), FromInt(2))
              /\ k = "increased" <=> DGe(t, FromInt(2))
              /\ k = "decreased" <=> DLe(t, FromInt(-2))
  /\ (Returned("calculateStatistics") /\ Len(data) >= 10)
       => LET t == result.ret.value.trendChange
              k == result.ret.value.trendAnalysis.kind
          IN  /\ k \in {"stable", "increased", "decreased"}
              /\ k = "increased" => t > 0
              /\ k = "decreased" => t < 0

\* a stable trend that is not zero: 6 of 7 early years against 7 of 8 recent
C6_Witness ==
  /\ Returned("calculateStatistics")
  /\ Len(data) = 15
  /\ result.ret.value.trendAnalysis.kind = "stable"
  /\ result.ret.value.trendChange = 179

\* the histogram a call returned, from either entry point
Histogram ==
  IF result.fn = "createDistributionData" THEN result.ret.value
  ELSE result.ret.value.distributionData

HasHistogram ==
  (Returned("createDistributionData") \/ Returned("calculateStatistics"))
    /\ Len(data) > 0

MaxValue == CHOOSE v \in {data[i].value : i \in DOMAIN data} :
              \A i \in DOMAIN data : data[i].value <= v

AllEqual == \A i, j \in DOMAIN data : data[i].value = data[j].value

\* C7 (as claimed): for every sample with N > 0 the histogram frequencies
\* sum to N.
C7_FrequenciesSumToN ==
  HasHistogram => SeqSum(Histogram.frequencies) = Len(data)

\* C8 (as claimed): for every non-empty sample the maximum value is counted
\* in the last bin: it lies within the closed interval of the last bin, and
\* the last frequency counts it.
C8_MaximumInLastBin ==
  HasHistogram =>
    LET h  == Histogram
        nb == Len(h.bins)
    IN  /\ DGe(Num(MaxValue), h.bins[nb].min)
        /\ DLe(Num(MaxValue), h.bins[nb].max)
        /\ h.frequencies[nb] >= 1

Clamp(n, lo, hi) == IF n < lo THEN lo ELSE IF n > hi THEN hi ELSE n

\* C9: for a non-empty sample of non-zero range the histogram has
\* clamp(floor(N/5), 10, 20) bins (10 for N < 55, 20 for N >= 100) and as
\* many frequencies as bins.
C9_BinCount ==
  (HasHistogram /\ ~AllEqual) =>
    LET h == Histogram
    IN  /\ Len(h.bins) = Clamp(Len(data) \div 5, 10, 20)
        /\ Len(h.frequencies) = Len(h.bins)
        /\ Len(data) < 55 => Len(h.bins) = 10
        /\ Len(data) >= 100 => Len(h.bins) = 20

C9_Witness ==
  /\ Returned("createDistributionData")
  /\ Len(data) = 105 /\ ~AllEqual
  /\ Len(result.ret.value.bins) = 20
  /\ Len(result.ret.value.frequencies) = 20

\* C10 (as claimed): when all values of a non-empty sample are equal the
\* histogram is a single bin holding that value, with frequency N.
C10_SingleBinWhenFlat ==
  (HasHistogram /\ AllEqual) =>
    LET h == Histogram
    IN  /\ Len(h.bins) = 1
        /\ h.frequencies = <<Len(data)>>
        /\ h.bins[1].min = Num(MaxValue) /\ h.bins[1].max = Num(MaxValue)

\* the input the failure semantics name: a threshold that is not a number, or
\* a sample element without a numeric value
InvalidInput ==
  IsNaN(result.thr) \/ \E i \in DOMAIN data : "value" \notin DOMAIN data[i]

\* C11 (as claimed): calculateStatistics fails, and returns no statistics,
\* whenever the threshold is not a number or a sample element lacks a numeric
\* value.
C11_InvalidInputFails ==
  (Called("calculateStatistics") /\ InvalidInput) => Threw(result.ret)

\* C12: for a variable id without an operator and a non-empty sample,
\* calculateStatistics and calculateProbability throw 'Unknown operator for
\* variable'; no probability is returned, so none computed with a default
\* operator.
C12_UnknownVariableFails ==
  (Len(data) > 0 /\ variable \notin DOMAIN operators
     /\ (Called("calculateStatistics") \/ Called("calculateProbability")))
    => result.ret = Throw("Unknown operator for variable")

C12_Witness ==
  /\ Called("calculateStatistics") /\ Len(data) = 12 /\ variable = "humidity"
  /\ result.ret = Throw("Unknown operator for variable")

\* C13 (as claimed): computing statistics for a variable id that analysisSchema
\* accepts never fails with an unknown-variable error.
C13_AcceptedVariablesHaveOperators ==
  (Called("calculateStatistics") /\ variable \in analysisSchemaVariables
     /\ Threw(result.ret))
    => result.ret.error # "Unknown operator for variable"

\* C14 (as claimed): no call of the engine changes the caller's sample (its
\* elements and their order).
C14_SampleUnchanged == [][data' = data]_vars

(***************************************************************************)
(* The loaders and the queries (SpecServer).                               *)
(***************************************************************************)
\* the index (Map) of a variable
indexOf(loader) ==
  CASE loader = "precipitation" -> precipitationProcessor.precipitationData
    [] loader = "wind_speed"    -> windSpeedProcessor.windSpeedData
    [] loader = "humidity"      -> humidityProcessor.humidityData

\* the loaded flag of a variable
loadedFlag(loader) ==
  CASE loader = "precipitation" -> precipitationProcessor.isDataLoaded
    [] loader = "wind_speed"    -> windSpeedProcessor.isDataLoaded
    [] loader = "humidity"      -> humidityProcessor.dataLoaded

totalRecordsOf(loader) ==
  CASE loader = "precipitation" -> precipitationProcessor.totalRecords
    [] loader = "wind_speed"    -> windSpeedProcessor.totalRecords

\* the readings of all dates of an index
readingCount(m) == SeqSum([i \in DOMAIN m |-> Len(m[i].value)])

\* the variable's load was called once and resolved
LoadedOnce(loader) ==
  loads[loader].calls = 1 /\ loads[loader].promise = "resolved"

\* the three conditions under which the specification skips a row
DocumentedSkip(row) ==
  \/ Len(row) < 2
  \/ row[2] \notin Numerals
  \/ parseFloat[row[2]] = FillValue * 10

NotSkipped(file) ==
  Cardinality({i \in DOMAIN bodyOf(file) : ~DocumentedSkip(bodyOf(file)[i])})

\* C15 (as claimed): after a load of the precipitation or wind speed file, the
\* rows with too few columns, a non-numeric value or the value -9999 are in no
\* date's readings and not counted, and every other row (a row with value 0
\* too) is in the readings of one date and counted once.
C15_RowsSkippedOrCounted ==
  \A l \in {"precipitation", "wind_speed"} :
    LoadedOnce(l) =>
      /\ totalRecordsOf(l) = NotSkipped(files[l])
      /\ readingCount(indexOf(l)) = NotSkipped(files[l])

\* a row with a timestamp, a decimal numeral as value and nothing else
NumericReading(row) ==
  Len(row) = 2 /\ isValidDate(row[1]) /\ row[2] \in Numerals

\* the row is among the readings of its date in the index of the variable
InIndex(loader, row) ==
  IF loader = "humidity"
    THEN \E i \in DOMAIN indexOf(loader) :
           /\ indexOf(loader)[i].key = toISODate(row[1], timezone)
           /\ \E k \in DOMAIN indexOf(loader)[i].value :
                /\ indexOf(loader)[i].value[k].time = row[1]
                /\ indexOf(loader)[i].value[k].humidity = Num(parseFloat[row[2]])
    ELSE \E i \in DOMAIN indexOf(loader) :
           /\ indexOf(loader)[i].key = splitOnSpace(row[1])[1]
           /\ \E k \in DOMAIN indexOf(loader)[i].value :
                /\ indexOf(loader)[i].value[k].time = splitOnSpace(row[1])[2]
                /\ indexOf(loader)[i].value[k].raw = parseFloat[row[2]]

\* C16 (as claimed): after a load of any of the three files, a numeric reading
\* is missing from the index if and only if its value is exactly -9999; values
\* below -9999 and negative values above it are kept.
C16_SentinelIsExact ==
  \A l \in Loaders :
    LoadedOnce(l) =>
      \A i \in DOMAIN bodyOf(files[l]) :
        NumericReading(bodyOf(files[l])[i]) =>
          (InIndex(l, bodyOf(files[l])[i])
             <=> parseFloat[bodyOf(files[l])[i][2]] # FillValue * 10)

\* the text that names the variable's column in a header line
variableColumn(loader) ==
  CASE loader = "precipitation" -> "Rainf"
    [] loader = "wind_speed"    -> "Wind"
    [] loader = "humidity"      -> "Qair"

\* the file of the variable is there and has no header line
Headerless(loader) ==
  files[loader].exists /\ ~hasHeader(files[loader], variableColumn(loader))

\* a load of the variable has signalled completion, and no other is under way
Completed(loader) ==
  loads[loader].calls >= 1 /\ loads[loader].promise # "pending"

\* C17 (as claimed): once a file without a header line has been loaded, the
\* load has failed, the variable's index is empty and its loaded flag false,
\* and a query for the variable reports 'not loaded'.
C17_HeaderlessFileFails ==
  /\ \A l \in Loaders :
       (Headerless(l) /\ Completed(l)) =>
         /\ loads[l].promise = "rejected"
         /\ indexOf(l) = <<>>
         /\ ~loadedFlag(l)
  /\ (Headerless("precipitation") /\ response.to = "GET /precipitation/date")
       => response.answer.status = 503
  /\ (Headerless("wind_speed") /\ response.to = "getWindSpeedForDate")
       => response.ret = Throw("Wind speed data not loaded")
  /\ (Headerless("humidity") /\ response.to = "getHumidityForDate")
       => IsNull(response.ret)

\* C18 (as claimed): whatever the files contain, no load operation ends the
\* process with an uncaught exception, leaving its promise pending and the
\* loads not yet made undone.
C18_NoUncaughtException == ~crashed

\* the loads of the variable that ran to their end
completedLoads(loader) ==
  IF loads[loader].promise = "pending"
    THEN loads[loader].calls - 1 ELSE loads[loader].calls

\* the rows of the file that one load inserts
rowsInserted(loader) ==
  IF loader = "humidity"
    THEN Cardinality({i \in DOMAIN files[loader].lines : keepsRow(files[loader].lines[i])})
    ELSE Cardinality({i \in DOMAIN bodyOf(files[loader]) :
                        acceptsRow(bodyOf(files[loader])[i], 1, 2)})

PrecipitationRoutes ==
  {"GET /precipitation/date", "GET /precipitation/range", "GET /precipitation/monthly"}

\* C19: the loaded flag of a variable is true only when every row of the file
\* has been inserted by each load that ran; until a load of the variable has
\* resolved, the precipitation routes answer 503, getWindSpeedForDate throws
\* 'not loaded' and the humidity queries return null or the empty list, so no
\* answer is computed from an index under construction.
C19_NoPartialIndex ==
  /\ \A l \in Loaders :
       loadedFlag(l) =>
         /\ loads[l].promise \in {"resolved", "pending"}
         /\ readingCount(indexOf(l)) = completedLoads(l) * rowsInserted(l)
  /\ \A l \in Loaders :
       (~loadedFlag(l)) <=> \/ completedLoads(l) = 0
                           \/ loads[l].promise \notin {"resolved", "pending"}
  /\ (response.to \in PrecipitationRoutes /\ loads.precipitation.promise # "resolved")
       => response.answer = [status |-> 503]
  /\ (response.to \in PrecipitationRoutes /\ response.answer.status # 503)
       => precipitationProcessor.isDataLoaded
  /\ (response.to = "getWindSpeedForDate" /\ loads.wind_speed.promise # "resolved")
       => response.ret = Throw("Wind speed data not loaded")
  /\ (response.to = "getHumidityForDate" /\ completedLoads("humidity") = 0)
       => IsNull(response.ret)
  /\ (response.to = "getHumidityRange" /\ completedLoads("humidity") = 0)
       => response.ret = <<>>

\* a precipitation date request that arrives while the humidity stream has
\* delivered rows and the precipitation load has not run is answered 503
C19_Witness ==
  /\ response.to = "GET /precipitation/date"
  /\ response.answer = [status |-> 503]
  /\ loads.precipitation.promise = "none"
  /\ loads.humidity.promise = "pending"
  /\ Len(loads.humidity.results) = 2

\* the variable's load was called a second time and resolved again
Reloaded(loader) ==
  loads[loader].calls = 2 /\ loads[loader].promise = "resolved"

\* C20 (as claimed): after a reload of the same file the index holds the
\* readings of a single load and totalRecords is that of a single load.
C20_ReloadRebuilds ==
  /\ \A l \in Loaders :
       Reloaded(l) => readingCount(indexOf(l)) = rowsInserted(l)
  /\ \A l \in {"precipitation", "wind_speed"} :
       Reloaded(l) => totalRecordsOf(l) = rowsInserted(l)

(***************************************************************************)
(* Daily, range and monthly aggregates (SpecDays, SpecServer).             *)
(***************************************************************************)
\* the accepted rows of the variable's file that are stamped with the date
RowsOfDate(loader, date) ==
  SelectSeq(bodyOf(files[loader]),
            LAMBDA row : acceptsRow(row, 1, 2) /\ splitOnSpace(row[1])[1] = date)

\* their normalized values: mm/hour for precipitation, m/s for wind speed
ValuesOfDate(loader, date) ==
  [k \in DOMAIN RowsOfDate(loader, date) |->
     DMulS(Num(parseFloat[RowsOfDate(loader, date)[k][2]]),
           IF loader = "precipitation" THEN 3600 ELSE 1)]

\* count, average, min and max are those of a non-empty list of values
IsAggregateOf(count, average, min, max, values) ==
  /\ count = Len(values)
  /\ count >= 1
  /\ \E k \in DOMAIN values : min = values[k]
  /\ \E k \in DOMAIN values : max = values[k]
  /\ \A k \in DOMAIN values : DLe(min, values[k]) /\ DLe(values[k], max)
  /\ DLe(min, average)
  /\ DLe(average, max)

\* C21 (as claimed): after a load, the aggregate of a date is absent exactly
\* when no accepted reading has the date; otherwise its reading count is the
\* number of accepted readings of the date, its min and max are the least and
\* the greatest of their normalized values, and min <= average <= max.
C21_DailyAggregate ==
  /\ (response.to = "getWindSpeedForDate" /\ LoadedOnce("wind_speed")) =>
       IF ValuesOfDate("wind_speed", response.date) = <<>>
         THEN response.ret = Return(Null)
         ELSE /\ ~Threw(response.ret)
              /\ ~IsNull(response.ret.value)
              /\ IsAggregateOf(response.ret.value.readings,
                               response.ret.value.average_wind_speed_ms,
                               response.ret.value.min_wind_speed_ms,
                               response.ret.value.max_wind_speed_ms,
                               ValuesOfDate("wind_speed", response.date))
  /\ (response.to = "GET /precipitation/date" /\ LoadedOnce("precipitation")
        /\ matchesDateFormat(response.date)) =>
       IF ValuesOfDate("precipitation", response.date) = <<>>
         THEN response.answer = [status |-> 404]
         ELSE /\ response.answer.status = 200
              /\ IsAggregateOf(response.answer.data.readings,
                               response.answer.data.average_mm_per_hour,
                               response.answer.data.min_mm_per_hour,
                               response.answer.data.max_mm_per_hour,
                               ValuesOfDate("precipitation", response.date))

\* a precipitation date request answered with the aggregate of a day
PrecipitationDayAnswered ==
  /\ response.to = "GET /precipitation/date"
  /\ LoadedOnce("precipitation")
  /\ response.answer.status = 200

\* the sum of the hourly rates of a date, added in file order
RatesTotal(date) ==
  reduceSum(ValuesOfDate("precipitation", date), DZero, 1,
            Len(ValuesOfDate("precipitation", date)))

\* C22 (as claimed): the daily total of a date is the mean hourly rate of its
\* readings, each the raw value times 3600, times the 3-hour window.
C22_TotalIsMeanTimesWindow ==
  PrecipitationDayAnswered =>
    response.answer.data.daily_total_mm
      = DMulS(DDivS(RatesTotal(response.date),
                    Len(ValuesOfDate("precipitation", response.date))), 3)

\* C22 (amended): the daily total of a date is the sum of the hourly rates of
\* its readings times the 3-hour window, one window per reading, and each
\* stored reading is the raw value times 3600.
C22_TotalIsSumTimesWindow ==
  PrecipitationDayAnswered =>
    /\ response.answer.data.daily_total_mm = DMulS(RatesTotal(response.date), 3)
    /\ readingValues(response.answer.data.raw_readings)
         = ValuesOfDate("precipitation", response.date)

\* a day with two readings of a non-zero total has been answered
C22_Witness ==
  /\ PrecipitationDayAnswered
  /\ response.answer.data.readings >= 2
  /\ response.answer.data.daily_total_mm # DZero

\* the lower bounds of the wind categories above Calm, in tenths of m/s, and
\* the categories in rising order
WindThresholds == <<3, 16, 34, 55, 80, 108, 139, 172, 208>>

WindCategories ==
  <<"Calm", "Light Air", "Light Breeze", "Gentle Breeze", "Moderate Breeze",
    "Fresh Breeze", "Strong Breeze", "Near Gale", "Gale", "Strong Gale+">>

\* the number of lower bounds a mean has reached
windRank(mean) ==
  Cardinality({i \in DOMAIN WindThresholds : DGe(mean, Num(WindThresholds[i]))})

\* a wind speed date query answered with the aggregate of a day
WindDayAnswered ==
  /\ response.to = "getWindSpeedForDate"
  /\ ~Threw(response.ret)
  /\ ~IsNull(response.ret.value)

\* C23: the wind category of a day is the one whose half-open interval holds
\* the mean: Calm below 0.3, the top category from 20.8 on, and in between the
\* category whose lower bound is the greatest one the mean has reached; so every
\* mean has exactly one category and the rank does not fall as the mean rises.
C23_WindCategory ==
  WindDayAnswered =>
    /\ response.ret.value.wind_category
         = WindCategories[windRank(response.ret.value.average_wind_speed_ms) + 1]
    /\ \A i \in DOMAIN WindThresholds :
         (response.ret.value.wind_category = WindCategories[i + 1]) <=>
           /\ DGe(response.ret.value.average_wind_speed_ms, Num(WindThresholds[i]))
           /\ i < Len(WindThresholds) =>
                DLt(response.ret.value.average_wind_speed_ms, Num(WindThresholds[i + 1]))
    /\ (response.ret.value.wind_category = "Calm") <=>
         DLt(response.ret.value.average_wind_speed_ms, Num(WindThresholds[1]))

\* a day whose mean is exactly the lower bound 0.3 has been put in Light Air
C23_Witness ==
  /\ WindDayAnswered
  /\ response.ret.value.average_wind_speed_ms = Num(WindThresholds[1])
  /\ response.ret.value.wind_category = "Light Air"

\* the calendar days from Calendar[range[1]] to Calendar[range[2]] that have
\* data in an index, in calendar order
DaysOfRange(m, range) ==
  SelectSeq(SubSeq(Calendar, range[1], range[2]), LAMBDA date : mapHas(m, date))

\* the dates of the aggregates a range query returned
DatesOf(aggregates) == [k \in DOMAIN aggregates |-> aggregates[k].date]

\* a range query of a loaded processor that returned a list
RangeReturned(to) ==
  /\ response.to = to
  /\ IF to = "GET /precipitation/range" THEN response.answer.status = 200
     ELSE IF to = "getWindSpeedRange" THEN ~Threw(response.ret)
     ELSE humidityProcessor.dataLoaded

\* a range query with startDate <= endDate that returned a list
RangeAnswered(to) == RangeReturned(to) /\ response.range[1] <= response.range[2]

\* C24 (as claimed): a range query with startDate <= endDate returns, in
\* ascending date order and each once, the aggregate of every calendar day of
\* the range that has data, and nothing else.
C24_RangeQuery ==
  /\ RangeAnswered("GET /precipitation/range") =>
       /\ DatesOf(response.answer.data)
            = DaysOfRange(precipitationProcessor.precipitationData, response.range)
       /\ \A k \in DOMAIN response.answer.data :
            response.answer.data[k]
              = precipitationForDate(precipitationProcessor.precipitationData,
                                     response.answer.data[k].date)
  /\ RangeAnswered("getWindSpeedRange") =>
       /\ DatesOf(response.ret.value)
            = DaysOfRange(windSpeedProcessor.windSpeedData, response.range)
       /\ \A k \in DOMAIN response.ret.value :
            response.ret.value[k]
              = windSpeedForDate(windSpeedProcessor.windSpeedData,
                                 response.ret.value[k].date)
  /\ RangeAnswered("getHumidityRange") =>
       /\ DatesOf(response.ret)
            = DaysOfRange(humidityProcessor.humidityData, response.range)
       /\ \A k \in DOMAIN response.ret :
            response.ret[k] = getHumidityForDate(humidityProcessor, response.ret[k].date)

\* C25 (as claimed): a range query with startDate > endDate fails, for every
\* variable; it never returns a list, empty or not.
C25_InvalidRangeFails ==
  \A to \in {"GET /precipitation/range", "getWindSpeedRange", "getHumidityRange"} :
    ~(RangeReturned(to) /\ response.range[1] > response.range[2])

\* the dates of a calendar month that have data in an index
DatesOfMonth(m, month) == {date \in mapKeys(m) : startsWithMonth(date, month)}

\* an aggregate of the month with the days counted, or absent when there are
\* none
IsMonthlyOf(absent, counted, dates) ==
  IF dates = {} THEN absent
  ELSE ~absent /\ counted >= 1 /\ counted = Cardinality(dates)

\* C26 (as claimed): after a load, the monthly aggregate is absent exactly
\* when no date of the calendar month has data; otherwise its number of days
\* with data is at least 1 and is the number of dates of the month that have
\* a daily aggregate.
C26_MonthlyAggregate ==
  /\ (response.to = "GET /precipitation/monthly"
        /\ response.answer.status \in {200, 404}) =>
       IsMonthlyOf(response.answer.status = 404,
                   IF response.answer.status = 404 THEN 0
                   ELSE response.answer.data.days_with_data,
                   DatesOfMonth(precipitationProcessor.precipitationData,
                                response.month))
  /\ (response.to = "getWindSpeedMonthly" /\ ~Threw(response.ret)) =>
       IsMonthlyOf(IsNull(response.ret.value),
                   IF IsNull(response.ret.value) THEN 0
                   ELSE response.ret.value.days_with_data,
                   DatesOfMonth(windSpeedProcessor.windSpeedData, response.month))
  /\ (response.to = "getHumidityMonthly" /\ humidityProcessor.dataLoaded) =>
       IsMonthlyOf(IsNull(response.ret),
                   IF IsNull(response.ret) THEN 0 ELSE response.ret.daysWithData,
                   DatesOfMonth(humidityProcessor.humidityData, response.month))

\* the positions in Calendar of the first and the last day of a month that
\* the calendar holds; no file has a reading on another day of these months
RangeOfMonth(month) ==
  CASE month = <<2014, 12>> -> <<1, 1>>
    [] month = <<2015, 1>>  -> <<2, 4>>

\* a monthly query for a month of the calendar, answered by a loaded processor
MonthAnswered(to) ==
  /\ response.to = to
  /\ response.month \in {<<2014, 12>>, <<2015, 1>>}
  /\ IF to = "GET /precipitation/monthly" THEN response.answer.status \in {200, 404}
     ELSE ~Threw(response.ret)

\* the fold of the daily aggregates a range query returns for a month
FoldOfPrecipitationRange(month) ==
  monthlyOfDays(month,
    [k \in DOMAIN getPrecipitationRange(precipitationProcessor, RangeOfMonth(month)[1],
                                        RangeOfMonth(month)[2]).value |->
       getPrecipitationRange(precipitationProcessor, RangeOfMonth(month)[1],
                             RangeOfMonth(month)[2]).value[k].daily_total_mm])

FoldOfWindSpeedRange(month) ==
  windMonthlyOfDays(month, getWindSpeedRange(windSpeedProcessor, RangeOfMonth(month)[1],
                                             RangeOfMonth(month)[2]).value)

\* C27 (as claimed): the monthly aggregate equals the fold of the range query
\* from the first to the last day of the month: the precipitation total is the
\* sum of the daily totals and the wind speed average is the average of the
\* daily averages of the aggregates the range query returns.
C27_MonthlyIsFoldOfRange ==
  /\ MonthAnswered("GET /precipitation/monthly") =>
       IF response.answer.status = 404
         THEN IsNull(FoldOfPrecipitationRange(response.month))
         ELSE response.answer.data = FoldOfPrecipitationRange(response.month)
  /\ MonthAnswered("getWindSpeedMonthly") =>
       response.ret.value = FoldOfWindSpeedRange(response.month)

\* the date parts, before the first space, of the timestamps of the rows a
\* loader accepts
AcceptedDates(loader) ==
  {splitOnSpace(bodyOf(files[loader])[i][1])[1] :
     i \in {j \in DOMAIN bodyOf(files[loader]) :
              IF loader = "humidity" THEN keepsRow(bodyOf(files[loader])[j])
              ELSE acceptsRow(bodyOf(files[loader])[j], 1, 2)}}

\* C28 (as claimed): for every loader and every timezone of the process, the
\* dates of the index are the date parts of the timestamps of the accepted
\* rows, as written in the file, with no timezone conversion.
C28_DateIsDatePart ==
  \A loader \in Loaders :
    LoadedOnce(loader) => mapKeys(indexOf(loader)) = AcceptedDates(loader)

\* what the engine answers for the sample, the threshold and the variable
EngineCount(values, var) == adverseCount(values, Num(threshold), var, 1, Len(values))

EngineProbability(values, var) == calculateProbability(values, Num(threshold), var).value

\* the values the two analysis routes count over
PrecipitationDays ==
  [k \in DOMAIN getPrecipitationRange(precipitationProcessor, 2, 4).value |->
     getPrecipitationRange(precipitationProcessor, 2, 4).value[k].daily_total_mm]

WindSpeedDays ==
  [k \in DOMAIN getWindSpeedRange(windSpeedProcessor, 2, 4).value |->
     getWindSpeedRange(windSpeedProcessor, 2, 4).value[k].average_wind_speed_ms]

\* C29 (as claimed): every analysis endpoint counts a value as adverse with
\* the operator of the variable, as the statistics engine does, and reports
\* the engine's exceedance probability for the sample, the threshold and the
\* variable.
C29_EndpointsAgreeWithEngine ==
  /\ result.fn = "giovanniStatistics" =>
       result.ret.probability = EngineProbability(valuesOf(data), variable)
  /\ (response.to = "POST /precipitation-analysis" /\ response.answer.status = 200) =>
       /\ response.answer.analysis.days_above_threshold
            = EngineCount(PrecipitationDays, "precipitation")
       /\ response.answer.analysis.likelihood
            = EngineProbability(PrecipitationDays, "precipitation")
  /\ (response.to = "POST /windspeed-analysis" /\ response.answer.status = 200) =>
       /\ response.answer.analysis.days_above_threshold
            = EngineCount(WindSpeedDays, "wind_speed")
       /\ response.answer.analysis.likelihood
            = EngineProbability(WindSpeedDays, "wind_speed")

\* some request of fetchData is in flight
InFlight == \E i \in DOMAIN requests : requests[i].state = "in flight"

\* C30 (as claimed): under every interleaving of overlapping fetchData calls,
\* once all requests have settled the data displayed is the result, response
\* or fallback, of the query submitted last, and loading is true whenever a
\* request is in flight.
C30_LatestQueryDisplayed ==
  /\ (requests # <<>> /\ ~InFlight /\ ~IsNull(hook.data)) =>
       hook.data.of = requests[Len(requests)].query
  /\ InFlight => hook.loading

====
